---- MODULE Spec2Model ----
(***************************************************************************)
(* SmartEDA: the client-side file processing utilities                     *)
(* (src/utils/fileProcessing.ts), the EDA dashboard and the ML dashboard   *)
(* (src/components/EDADashboard.tsx, src/components/MLDashboard.tsx), the  *)
(* backend analysis routines documented with the sources, the upload form, *)
(* the training section of the home page and the session handling of App   *)
(* with its login and registration forms.                                  *)
(*                                                                         *)
(* Numbers: cell values are small integers.  Metrics and coefficients that *)
(* the code writes as decimals are kept as integers scaled by a stated     *)
(* factor (0.78 is 78 at scale 100, 0.7841 is 7841 at scale 10000).  A     *)
(* Pearson coefficient r = num / sqrt(den2) is kept as the exact pair      *)
(* (num, den2) where the rows are few small integers and nothing rounds;   *)
(* the rounding of the same computation is followed separately in binary   *)
(* floating point.                                                         *)
(***************************************************************************)
EXTENDS Integers, Sequences, FiniteSets, TLC

(***************************************************************************)
(* Bounds of the model                                                     *)
(***************************************************************************)
MaxRows == 2

MaxRenders == 3

\* the latest time of the clock, in seconds
MaxTime == 3

\* training requests sent by MLSection
MaxTrainings == 3

\* analyses started in one EDADashboard while earlier ones may be under way
MaxRuns == 2

\* uploads started in FileUpload
MaxUploads == 3

\* rows of a target column handed to analyze_target_variable
MaxTargetRows == 11

\* numeric pairs handed to the floating-point correlation, and their values
MaxPairs == 3

MaxValue == 2

\* bits of the significand the floating-point arithmetic is carried with
\* (an odd number, as the 53 of a double)
MantissaBits == 9

(***************************************************************************)
(* State                                                                   *)
(***************************************************************************)
VARIABLES
  file,              \* the file handed to parseFile
  fpc,               \* "selected", "resolved", "rejected", "statistics", "correlation"
  parsed,            \* what the parse promise settled with
  stats,             \* the last calculateStatistics call and its result
  again,             \* a second run of the last operation on the same input
  corr,              \* the last calculateCorrelation call and its result
  demoData,          \* window.demoData is set
  mlDatasetId,       \* MLDashboard: the datasetId prop ("" before the mount)
  mlRenders,         \* MLDashboard: how often the prop has been set
  mlIsLoading,       \* MLDashboard state: isLoading
  mlResult,          \* MLDashboard state: mlResult
  mlError,           \* MLDashboard state: error ("" is null)
  mlProgress,        \* MLDashboard state: progress
  targetColumn,      \* MLDashboard state: targetColumn
  testSize,          \* MLDashboard state: testSize, at scale 100
  availableColumns,  \* MLDashboard state: availableColumns
  mlDemoTimers,      \* pending 2000 ms timers of the demo branch
  mlInfoFetches,     \* dataset ids whose info request is in flight
  mlTrain,           \* the training request in flight
  edaDatasetId,      \* EDADashboard: the datasetId prop ("" before the mount)
  edaRenders,        \* EDADashboard: how often the prop has been set
  edaIsLoading,      \* EDADashboard state: isLoading
  edaResult,         \* EDADashboard state: edaResult
  edaError,          \* EDADashboard state: error ("" is null)
  edaProgress,       \* EDADashboard state: progress
  edaDemoTimers,     \* pending 1500 ms timers of the demo branch
  edaRun,            \* the startEDAAnalysis call in flight and its poll loop
  edaTask,           \* the status of the analysis task at the backend
  targetData,        \* the target column handed to analyze_target_variable
  targetAnalysis,    \* what analyze_target_variable returned
  numericPairs,      \* the [a, b] pairs calculateCorrelation filtered out of the rows
  coefficient,       \* what calculateCorrelation returned for them
  route,             \* App: the path the router shows
  uploadedDataset,   \* App state: dataset_id of uploadedDataset ("" is null)
  savedDataset,      \* localStorage 'uploadedDataset': its dataset_id ("" is absent)
  navTimer,          \* the 100 ms timer of handleLoadDemoDataset is pending
  uploadProgress,    \* FileUpload state: uploadProgress
  isUploading,       \* FileUpload state: isUploading
  uploadedFile,      \* FileUpload state: dataset_id of uploadedFile ("" is null)
  uploadError,       \* FileUpload state: error ("" is null)
  progressIntervals, \* progress intervals of uploadFile that were set and not cleared
  resetTimers,       \* pending 3000 ms timers of uploadFile
  uploadRequest,     \* the upload request in flight
  uploads,           \* how many uploads were started
  edaRuns,           \* EDADashboard: the analyses started so far, by number
  edaLatest,         \* EDADashboard: the number of the analysis started last
  homeFile,          \* MLSection: the uploadedFile prop ("" is null)
  homeTarget,        \* MLSection: the targetColumn prop
  selectedModel,     \* MLSection state: selectedModel
  isTraining,        \* MLSection state: isTraining
  showResults,       \* MLSection state: showResults
  homeResult,        \* MLSection state: mlResult
  homeError,         \* MLSection state: mlError ("" is null)
  homeRequests,      \* MLSection: the training requests in flight
  trainings,         \* MLSection: how many training requests were sent
  token,             \* localStorage 'token'
  now,               \* Date.now(), in seconds
  view,              \* App: what Routes rendered for the path
  requested,         \* the path the user asked for last
  authRequests,      \* the forms of AuthCard whose request is in flight
  authError,         \* the error a form of AuthCard shows ("" is null)
  lastCheck          \* the time checkTokenExpiry ran last

(***************************************************************************)
(* JavaScript values held in a parsed cell                                 *)
(***************************************************************************)
Null == [t |-> "null", n |-> 0, s |-> ""]

Undefined == [t |-> "undefined", n |-> 0, s |-> ""]

Num(n) == [t |-> "number", n |-> n, s |-> ""]

Str(s) == [t |-> "string", n |-> 0, s |-> s]

\* typeof val === 'number' && !isNaN(val)
IsNumber(v) == v.t = "number" /\ v.s # "NaN"

\* val === null || val === undefined || val === ''
IsMissing(v) == v = Null \/ v = Undefined \/ v = Str("")

\* row[col] : a key the row object does not have reads as undefined
Get(row, col) == IF col \in DOMAIN row THEN row[col] ELSE Undefined

(***************************************************************************)
(* The raw file.  A cell is the text the file holds for it; "" is an empty *)
(* cell.  "NaN" is the textual not-a-number marker of a data export.       *)
(***************************************************************************)
Tokens == {"", "1", "2", "a", "NaN"}

NaNTokens == {"NaN"}

FloatTokens == {"1", "2"}

ParseFloat(tok) == IF tok = "1" THEN 1 ELSE 2

CsvHeaders == {<< >>, <<"x">>, <<"x", "y">>}

XlsxHeaders == {<< >>, <<"x">>, <<"x", "y">>, <<"", "y">>, <<"x", "x">>}

Width(header) == IF Len(header) = 0 THEN 1 ELSE Len(header)

\* the lines a file may hold below a header of that width
LineSet(header) == UNION {[1..w -> Tokens] : w \in 1..Width(header)}

IsFile(f) ==
  \/ f \in {[kind |-> "txt", sheets |-> 0, header |-> << >>, lines |-> << >>],
             [kind |-> "xlsx", sheets |-> 0, header |-> << >>, lines |-> << >>],
             [kind |-> "csv", sheets |-> 0, header |-> << >>, lines |-> << >>]}
  \/ \E h \in CsvHeaders \ {<< >>} : \E k \in 0..MaxRows :
       \E l \in [1..k -> LineSet(h)] :
         f = [kind |-> "csv", sheets |-> 0, header |-> h, lines |-> l]
  \/ \E h \in XlsxHeaders : \E k \in 0..MaxRows :
       \E l \in [1..k -> LineSet(h)] :
         f = [kind |-> "xlsx", sheets |-> 1, header |-> h, lines |-> l]

(***************************************************************************)
(* Sequence helpers                                                        *)
(***************************************************************************)
Min(a, b) == IF a < b THEN a ELSE b

Abs(a) == IF a < 0 THEN -a ELSE a

RECURSIVE SumSeq(_)
SumSeq(s) == IF s = << >> THEN 0 ELSE s[1] + SumSeq(Tail(s))

Range(s) == {s[i] : i \in DOMAIN s}

Slice(s, n) == SubSeq(s, 1, Min(Len(s), n))

\* the position of the last header field named c
IndexOf(header, c) ==
  CHOOSE i \in DOMAIN header :
    header[i] = c /\ \A j \in DOMAIN header : header[j] = c => j <= i

(***************************************************************************)
(* fileProcessing.ts: type inference and missing-value count (the block    *)
(* parseCSV and parseExcel share word for word)                            *)
(***************************************************************************)
SampleSize == 100

\* data.slice(0, 100).map(row => row[col]).filter(non-missing)
SampleValues(data, col) ==
  SelectSeq([i \in 1..Len(Slice(data, SampleSize)) |-> Get(data[i], col)],
            LAMBDA v : ~IsMissing(v))

InferTypeEmptyIsNumeric(data, col) ==
  IF Len(SampleValues(data, col)) > 0
  THEN IF SampleValues(data, col)[1].t = "number" THEN "numeric" ELSE "categorical"
  ELSE "numeric"

\* typeof firstValue === 'number' ? 'numeric' : 'categorical'
InferType(data, col) ==
  IF Len(SampleValues(data, col)) > 0
  THEN IF SampleValues(data, col)[1].t = "number" THEN "numeric" ELSE "categorical"
  ELSE "categorical"

\* data.filter(row => row[col] is null, undefined or '').length
MissingInColumnCarriedOver(data, col) ==
  parsed.info.missingValues
    + Cardinality({i \in DOMAIN data : IsMissing(Get(data[i], col))})

MissingInColumn(data, col) ==
  Cardinality({i \in DOMAIN data : IsMissing(Get(data[i], col))})

\* columns.forEach(col => { missingValues += ... })
MissingValues(data, columns) ==
  SumSeq([k \in DOMAIN columns |-> MissingInColumn(data, columns[k])])

RowsOffByOne(data, columns) ==
  [data |-> data,
   columns |-> columns,
   shape |-> [rows |-> Len(data) + 1, columns |-> Len(columns)],
   dtypes |-> [c \in Range(columns) |-> InferType(data, c)],
   missingValues |-> MissingValues(data, columns)]

DatasetInfo(data, columns) ==
  [data |-> data,
   columns |-> columns,
   shape |-> [rows |-> Len(data), columns |-> Len(columns)],
   dtypes |-> [c \in Range(columns) |-> InferType(data, c)],
   missingValues |-> MissingValues(data, columns)]

NoInfo == DatasetInfo(<< >>, << >>)

(***************************************************************************)
(* parseCSV: Papa.parse with header, dynamicTyping and skipEmptyLines      *)
(***************************************************************************)
\* dynamicTyping: numeric text becomes a number, the empty field null
DynamicTyping(tok) ==
  IF tok \in FloatTokens THEN Num(ParseFloat(tok))
  ELSE IF tok = "" THEN Null ELSE Str(tok)

\* skipEmptyLines: a line that is one empty field is dropped
IsEmptyLine(l) == Len(l) = 1 /\ l[1] = ""

CsvRow(header, l) ==
  [c \in {header[i] : i \in 1..Min(Len(header), Len(l))} |->
     DynamicTyping(l[IndexOf(header, c)])]

CsvData(f) ==
  LET kept == SelectSeq(f.lines, LAMBDA l : ~IsEmptyLine(l))
  IN [i \in DOMAIN kept |-> CsvRow(f.header, kept[i])]

parseCSV(f) ==
  [ok |-> TRUE, info |-> DatasetInfo(CsvData(f), f.header), error |-> ""]

(***************************************************************************)
(* parseExcel: first worksheet, row 1 is the header                        *)
(***************************************************************************)
\* headerRow.eachCell visits the non-empty cells only and pushes their text
ExcelColumns(f) == SelectSeq(f.header, LAMBDA h : h # "")

\* Number cells become numbers, every other cell its text
ExcelValue(tok) == IF tok \in FloatTokens THEN Num(ParseFloat(tok)) ELSE Str(tok)

\* row.eachCell visits the non-empty cells; columns[colNumber - 1] names them
ExcelRow(columns, l) ==
  LET visited == {k \in 1..Min(Len(l), Len(columns)) : l[k] # ""}
  IN [c \in {columns[k] : k \in visited} |->
        ExcelValue(l[CHOOSE k \in visited :
                       columns[k] = c /\ \A j \in visited : columns[j] = c => j <= k])]

\* worksheet.eachRow visits the rows that hold a value; row 1 is skipped
ExcelData(f) ==
  LET kept == SelectSeq(f.lines, LAMBDA l : \E k \in DOMAIN l : l[k] # "")
  IN [i \in DOMAIN kept |-> ExcelRow(ExcelColumns(f), kept[i])]

parseExcel(f) ==
  IF f.sheets = 0
  THEN [ok |-> FALSE, info |-> NoInfo,
        error |-> "Failed to parse Excel f: No worksheets found in the Excel f"]
  ELSE [ok |-> TRUE, info |-> DatasetInfo(ExcelData(f), ExcelColumns(f)),
        error |-> ""]

parseFile(f) ==
  IF f.kind = "csv" THEN parseCSV(f)
  ELSE IF f.kind = "xlsx" THEN parseExcel(f)
  ELSE [ok |-> FALSE, info |-> NoInfo, error |-> "Unsupported f type"]

(***************************************************************************)
(* calculateStatistics                                                     *)
(***************************************************************************)
RECURSIVE Insert(_, _)
Insert(v, s) ==
  IF s = << >> THEN <<v>>
  ELSE IF v <= s[1] THEN <<v>> \o s ELSE <<s[1]>> \o Insert(v, Tail(s))

\* values.sort((a, b) => a - b)
RECURSIVE Sort(_)
Sort(s) == IF s = << >> THEN << >> ELSE Insert(s[1], Sort(Tail(s)))

\* data.map(row => row[column]).filter(typeof val === 'number' && !isNaN(val))
NumericValues(data, column) ==
  LET kept == SelectSeq([i \in DOMAIN data |-> Get(data[i], column)],
                        LAMBDA v : IsNumber(v))
  IN [i \in DOMAIN kept |-> kept[i].n]

\* the null the function returns for a column without numbers
NullStatistics ==
  [isNull |-> TRUE, count |-> 0, sum |-> 0, median |-> 0, min |-> 0, max |-> 0,
   varNum |-> 0]

\* mean is sum / count and std is sqrt(varNum) / count
Statistics(values) ==
  [isNull |-> FALSE,
   count |-> Len(values),
   sum |-> SumSeq(values),
   median |-> IF values = << >> THEN 0 ELSE Sort(values)[(Len(values) \div 2) + 1],
   min |-> IF values = << >> THEN 0 ELSE Sort(values)[1],
   max |-> IF values = << >> THEN 0 ELSE Sort(values)[Len(values)],
   varNum |-> Len(values) * SumSeq([i \in DOMAIN values |-> values[i] * values[i]])
              - SumSeq(values) * SumSeq(values)]

calculateStatisticsNoGuard(data, column) == Statistics(NumericValues(data, column))

calculateStatistics(data, column) ==
  IF Len(NumericValues(data, column)) = 0 THEN NullStatistics
  ELSE Statistics(NumericValues(data, column))

(***************************************************************************)
(* calculateCorrelation.  With n pairs, num = pSum - sum1*sum2/n and       *)
(* den = sqrt((sum1Sq - sum1^2/n) * (sum2Sq - sum2^2/n)); both are kept    *)
(* multiplied by n, so the coefficient is num / sqrt(den2).                *)
(***************************************************************************)
\* the number 0
Zero == [num |-> 0, den2 |-> 1]

\* a result that is no real coefficient (0/0)
NotComputable == [num |-> 0, den2 |-> 0]

\* rows where both cells are numbers
Pairs(data, col1, col2) ==
  SelectSeq([i \in DOMAIN data |-> <<Get(data[i], col1), Get(data[i], col2)>>],
            LAMBDA p : IsNumber(p[1]) /\ IsNumber(p[2]))

\* n * sumSq - sum^2 of one side of the pairs
Spread(pairs, k) ==
  Len(pairs) * SumSeq([i \in DOMAIN pairs |-> pairs[i][k].n * pairs[i][k].n])
  - SumSeq([i \in DOMAIN pairs |-> pairs[i][k].n])
    * SumSeq([i \in DOMAIN pairs |-> pairs[i][k].n])

calculateCorrelation(data, col1, col2) ==
  LET pairs == Pairs(data, col1, col2)
      n == Len(pairs)
      num == n * SumSeq([i \in DOMAIN pairs |-> pairs[i][1].n * pairs[i][2].n])
             - SumSeq([i \in DOMAIN pairs |-> pairs[i][1].n])
               * SumSeq([i \in DOMAIN pairs |-> pairs[i][2].n])
      den2 == Spread(pairs, 1) * Spread(pairs, 2)
  IN IF n < 2 THEN Zero
     ELSE IF den2 = 0 THEN Zero ELSE [num |-> num, den2 |-> den2]

(***************************************************************************)
(* MLDashboard.tsx: the reports the component can hold.  Metrics are at    *)
(* scale 10000, feature importances at scale 100, times at scale 10.       *)
(***************************************************************************)
DemoDatasetId == "demo-dataset-123"

\* mlResult === null
NoMLResult ==
  [present |-> FALSE, analysis_id |-> "", problem_type |-> "",
   features_used |-> 0, features_used_in_training |-> << >>,
   model_results |-> << >>, best_model |-> ""]

ModelResult(name, type, metrics, importance, time) ==
  [model_name |-> name, algorithm_type |-> type, metrics |-> metrics,
   has_importance |-> TRUE, feature_importance |-> importance,
   training_time |-> time]

DemoMLResultWrongBest ==
  [present |-> TRUE, analysis_id |-> "demo-ml-123", problem_type |-> "regression",
   features_used |-> 6,
   features_used_in_training |-> <<"age", "years_experience", "salary", "satisfaction_score">>,
   model_results |->
     <<ModelResult("Random Forest", "regression",
                   [r2_score |-> 7841, cv_r2_mean |-> 7654], <<42, 31, 18, 9>>, 32),
       ModelResult("Linear Regression", "regression",
                   [r2_score |-> 6234, cv_r2_mean |-> 6089], <<38, 29, 22, 11>>, 4),
       ModelResult("Decision Tree", "regression",
                   [r2_score |-> 7156, cv_r2_mean |-> 6891], <<35, 34, 19, 12>>, 11),
       ModelResult("SVR", "regression",
                   [r2_score |-> 5987, cv_r2_mean |-> 5743], <<33, 28, 25, 14>>, 48)>>,
   best_model |-> "Linear Regression"]

\* generateRealisticMLResults()
DemoMLResult ==
  [present |-> TRUE, analysis_id |-> "demo-ml-123", problem_type |-> "regression",
   features_used |-> 6,
   features_used_in_training |-> <<"age", "years_experience", "salary", "satisfaction_score">>,
   model_results |->
     <<ModelResult("Random Forest", "regression",
                   [r2_score |-> 7841, cv_r2_mean |-> 7654], <<42, 31, 18, 9>>, 32),
       ModelResult("Linear Regression", "regression",
                   [r2_score |-> 6234, cv_r2_mean |-> 6089], <<38, 29, 22, 11>>, 4),
       ModelResult("Decision Tree", "regression",
                   [r2_score |-> 7156, cv_r2_mean |-> 6891], <<35, 34, 19, 12>>, 11),
       ModelResult("SVR", "regression",
                   [r2_score |-> 5987, cv_r2_mean |-> 5743], <<33, 28, 25, 14>>, 48)>>,
   best_model |-> "Random Forest"]

\* the report the "Load Demo Data" button of the error view installs
FallbackMLResult ==
  [present |-> TRUE, analysis_id |-> "demo-ml-123", problem_type |-> "classification",
   features_used |-> 8,
   features_used_in_training |-> <<"age", "salary", "score">>,
   model_results |->
     <<ModelResult("Random Forest", "classification",
                   [accuracy |-> 8750, cv_accuracy_mean |-> 8520], <<35, 28, 22>>, 21),
       ModelResult("Logistic Regression", "classification",
                   [accuracy |-> 8200, cv_accuracy_mean |-> 8100], <<40, 35, 25>>, 8)>>,
   best_model |-> "Random Forest"]

\* accuracy for classification, R2 for regression
PrimaryMetric(m, problem_type) ==
  IF problem_type = "classification" THEN m.metrics.accuracy ELSE m.metrics.r2_score

DemoColumns ==
  <<"age", "years_experience", "salary", "performance_score", "satisfaction_score",
    "department", "region", "category">>

DemoTarget == "performance_score"

DefaultTestSize == 20

(***************************************************************************)
(* The analysis service behind the dashboards (its code is not part of     *)
(* the sources; modelled from the specification).  Two uploaded datasets.  *)
(***************************************************************************)
BackendDatasetIds == {"ds-1", "ds-2"}

NumericalColumns(id) == IF id = "ds-1" THEN <<"age", "salary">> ELSE <<"score">>

CategoricalColumns(id) == IF id = "ds-1" THEN <<"department">> ELSE <<"region">>

DatasetColumns(id) == NumericalColumns(id) \o CategoricalColumns(id)

StoredRows(id) == IF id = "ds-1" THEN 3 ELSE 2

InvalidTargetError == "InvalidTargetError"

DatasetNotFound == "Dataset not found"

Roster(problem_type) ==
  IF problem_type = "classification"
  THEN <<"Logistic Regression", "Decision Tree", "Random Forest", "SVC">>
  ELSE <<"Linear Regression", "Decision Tree", "Random Forest", "SVR">>

RosterTimes == <<4, 11, 32, 48>>

ScoreValues == {6000, 8000}

\* ModelSelector: highest primary metric, ties broken by shorter training time
SelectBest(results, problem_type) ==
  results[CHOOSE i \in DOMAIN results :
            \A j \in DOMAIN results :
              \/ PrimaryMetric(results[i], problem_type)
                   > PrimaryMetric(results[j], problem_type)
              \/ /\ PrimaryMetric(results[i], problem_type)
                      = PrimaryMetric(results[j], problem_type)
                 /\ results[i].training_time <= results[j].training_time].model_name

\* RunTraining on a dataset whose target column exists
TrainingReport(id, target, scores) ==
  LET problem_type == IF target \in Range(CategoricalColumns(id))
                      THEN "classification" ELSE "regression"
      features == SelectSeq(DatasetColumns(id), LAMBDA c : c # target)
      results ==
        [i \in DOMAIN Roster(problem_type) |->
           ModelResult(Roster(problem_type)[i], problem_type,
                       IF problem_type = "classification"
                       THEN [accuracy |-> scores[i], cv_accuracy_mean |-> scores[i]]
                       ELSE [r2_score |-> scores[i], cv_r2_mean |-> scores[i]],
                       [k \in DOMAIN features |-> 100 \div Len(features)],
                       RosterTimes[i])]
  IN [present |-> TRUE, analysis_id |-> "ml-job", problem_type |-> problem_type,
      features_used |-> Len(features),
      features_used_in_training |-> features,
      model_results |-> results,
      best_model |-> SelectBest(results, problem_type)]

\* the algorithms of a roster whose model.fit raises: none, the
\* support-vector one, two of them, all
Failures == {{}, {4}, {2, 4}, 1..4}

\* the scores the fits produce; once a fit has raised none of them is used
Scores(failed) ==
  IF failed = {} THEN [1..4 -> ScoreValues] ELSE {[i \in 1..4 |-> 6000]}

\* except ValueError as e: raise ValueError(f"Model training failed: ...")
FitFailed == "Model training failed"

\* POST /api/ml/train/{dataset_id}?target_column=..&test_size=..
\* failed: the algorithms whose fit raises; the error is raised again and
\* ends the request
train_model(id, target, scores, failed) ==
  IF id \notin BackendDatasetIds
  THEN [ok |-> FALSE, detail |-> DatasetNotFound, data |-> NoMLResult]
  ELSE IF target \notin Range(DatasetColumns(id))
  THEN [ok |-> FALSE, detail |-> InvalidTargetError, data |-> NoMLResult]
  ELSE IF failed # {}
  THEN [ok |-> FALSE, detail |-> FitFailed, data |-> NoMLResult]
  ELSE [ok |-> TRUE, detail |-> "", data |-> TrainingReport(id, target, scores)]

(***************************************************************************)
(* MLDashboard.tsx: what startMLTraining does with the response            *)
(***************************************************************************)
TrainingFailed == "ML training failed"

FailedToFetch == "Failed to fetch"

SelectTargetFirst == "Please select a target column"

TrainOutcomeIgnoringStatus(resp, cur) ==
  [mlResult |-> resp.data, mlError |-> "", mlProgress |-> 100]

\* if (!response.ok) throw new Error(errorData.detail || 'ML training failed');
\* otherwise setMlResult(result.data); setProgress(100)
TrainOutcome(resp, cur) ==
  IF ~resp.ok
  THEN [mlResult |-> cur.mlResult,
        mlError |-> IF resp.detail # "" THEN resp.detail ELSE TrainingFailed,
        mlProgress |-> cur.mlProgress]
  ELSE [mlResult |-> resp.data, mlError |-> "", mlProgress |-> 100]

(***************************************************************************)
(* EDADashboard.tsx: the reports the component can hold.  Correlation      *)
(* coefficients are at scale 100.                                          *)
(***************************************************************************)
\* edaResult === null
NoEDAResult ==
  [present |-> FALSE, analysis_id |-> "", total_rows |-> 0, total_columns |-> 0,
   numerical_columns |-> << >>, categorical_columns |-> << >>,
   high_correlations |-> << >>]

Pair(c1, c2, r) == [column1 |-> c1, column2 |-> c2, correlation |-> r]

DemoRows == 1000

\* generateRealisticEDAResults()
DemoEDAResult ==
  [present |-> TRUE, analysis_id |-> "demo-eda-123", total_rows |-> DemoRows,
   total_columns |-> 8,
   numerical_columns |->
     <<"age", "years_experience", "salary", "performance_score", "satisfaction_score">>,
   categorical_columns |-> <<"department", "region", "category">>,
   high_correlations |->
     <<Pair("years_experience", "salary", 78),
       Pair("age", "years_experience", 85),
       Pair("performance_score", "salary", 42),
       Pair("performance_score", "satisfaction_score", 67)>>]

\* the report the "Load Demo Data" button of the error view installs
FallbackEDAResult ==
  [present |-> TRUE, analysis_id |-> "demo-123", total_rows |-> DemoRows,
   total_columns |-> 10,
   numerical_columns |-> <<"age", "salary", "score">>,
   categorical_columns |-> <<"category", "region">>,
   high_correlations |-> <<Pair("age", "salary", 65)>>]

(***************************************************************************)
(* Backend: compute_correlations / find_high_correlations (README of the   *)
(* analysis service).  The matrix is given for the pairs i < j of the      *)
(* numerical columns.                                                      *)
(***************************************************************************)
BackendThreshold == 80

CorrValues == {-90, 42, 75, 85}

ColumnPairs(columns) ==
  {p \in (DOMAIN columns) \X (DOMAIN columns) : p[1] < p[2]}

RECURSIVE PairsToSeq(_, _, _)
PairsToSeq(columns, matrix, todo) ==
  IF todo = {} THEN << >>
  ELSE LET p == CHOOSE q \in todo :
                  \A o \in todo : q[1] < o[1] \/ (q[1] = o[1] /\ q[2] <= o[2])
       IN <<Pair(columns[p[1]], columns[p[2]], matrix[p])>>
            \o PairsToSeq(columns, matrix, todo \ {p})

\* for i, for j in range(i+1, ..): if abs(corr) > threshold: append
find_high_correlations(columns, matrix, threshold) ==
  PairsToSeq(columns, matrix,
             {p \in ColumnPairs(columns) : Abs(matrix[p]) > threshold})

\* the report an analysis of a stored dataset completes with
AnalysisReport(id, matrix) ==
  [present |-> TRUE, analysis_id |-> "analysis-1", total_rows |-> StoredRows(id),
   total_columns |-> Len(DatasetColumns(id)),
   numerical_columns |-> NumericalColumns(id),
   categorical_columns |-> CategoricalColumns(id),
   high_correlations |->
     find_high_correlations(NumericalColumns(id), matrix, BackendThreshold)]

maxAttempts == 30

NotReachable == "Backend server is not reachable"

AnalysisFailedToStart == "EDA analysis failed"

AnalysisFailed == "Analysis failed"

AnalysisTimedOut == "Analysis timed out"

NoRun == [phase |-> "none", datasetId |-> "", attempts |-> 0]

(***************************************************************************)
(* Backend: analyze_target_variable (README of the analysis service).  A   *)
(* target column is its dtype and its values; the class shares are kept as *)
(* fractions [num, den].                                                   *)
(***************************************************************************)
Dtypes == {"object", "int64"}

\* the values of a column of n rows, in sorted order, a new value starting
\* after each row of cuts
ColumnValues(n, cuts) == [i \in 1..n |-> 1 + Cardinality({k \in cuts : k < i})]

IsTargetColumn(c) ==
  \E n \in 0..MaxTargetRows : \E cuts \in SUBSET (1..(n - 1)) : \E dt \in Dtypes :
    c = [dtype |-> dt, values |-> ColumnValues(n, cuts)]

nunique(values) == Cardinality(Range(values))

value_counts(values) ==
  [v \in Range(values) |-> Cardinality({i \in DOMAIN values : values[i] = v})]

\* class_balance.max(): the largest count over the number of values
max_class_percentage(values) ==
  LET counts == value_counts(values)
  IN [num |-> IF DOMAIN counts = {} THEN 0
              ELSE CHOOSE c \in Range(counts) : \A o \in Range(counts) : o <= c,
      den |-> Len(values)]

ClassLimit == 10

IsClassificationUpToLimit(c) ==
  c.dtype = "object" \/ nunique(c.values) <= ClassLimit

\* df[target_column].dtype == 'object' or df[target_column].nunique() < 10
IsClassification(c) ==
  c.dtype = "object" \/ nunique(c.values) < ClassLimit

balance_status_from_eight_tenths(share) ==
  IF share.num * 10 >= 8 * share.den /\ share.den > 0 THEN "highly_imbalanced"
  ELSE IF share.num * 10 > 6 * share.den THEN "moderately_imbalanced"
  ELSE "balanced"

\* if max_class_percentage > 0.8 .. elif max_class_percentage > 0.6 .. else
balance_status(share) ==
  IF share.num * 10 > 8 * share.den THEN "highly_imbalanced"
  ELSE IF share.num * 10 > 6 * share.den THEN "moderately_imbalanced"
  ELSE "balanced"

NoTargetAnalysis ==
  [done |-> FALSE, problem_type |-> "", balance_status |-> "", num_classes |-> 0]

analyze_target_variable(c) ==
  IF IsClassification(c)
  THEN [done |-> TRUE, problem_type |-> "classification",
        balance_status |-> balance_status(max_class_percentage(c.values)),
        num_classes |-> nunique(c.values)]
  ELSE [done |-> TRUE, problem_type |-> "regression", balance_status |-> "",
        num_classes |-> 0]

(***************************************************************************)
(* Binary floating point: a number is m * 2^e with a significand of        *)
(* MantissaBits bits, every operation rounds its exact result to the       *)
(* nearest such number, ties to even (IEEE 754).                           *)
(***************************************************************************)
NaN == [m |-> 0, e |-> 0, nan |-> TRUE]

\* n / d * 2^e rounded
RECURSIVE Norm(_, _, _)
Norm(n, d, e) ==
  IF n = 0 THEN [m |-> 0, e |-> 0, nan |-> FALSE]
  ELSE IF Abs(n) >= d * 2^MantissaBits THEN Norm(n, 2 * d, e + 1)
  ELSE IF Abs(n) < d * 2^(MantissaBits - 1) THEN Norm(2 * n, d, e - 1)
  ELSE LET q == Abs(n) \div d
           rem == Abs(n) % d
           up == 2 * rem > d \/ (2 * rem = d /\ q % 2 = 1)
           mm == IF up THEN q + 1 ELSE q
           sign == IF n < 0 THEN -1 ELSE 1
       IN IF mm = 2^MantissaBits
          THEN [m |-> sign * 2^(MantissaBits - 1), e |-> e + 1, nan |-> FALSE]
          ELSE [m |-> sign * mm, e |-> e, nan |-> FALSE]

FromInt(k) == Norm(k, 1, 0)

FAdd(a, b) ==
  IF a.nan \/ b.nan THEN NaN
  ELSE LET e == Min(a.e, b.e)
       IN Norm(a.m * 2^(a.e - e) + b.m * 2^(b.e - e), 1, e)

FSub(a, b) == FAdd(a, [b EXCEPT !.m = -b.m])

FMul(a, b) == IF a.nan \/ b.nan THEN NaN ELSE Norm(a.m * b.m, 1, a.e + b.e)

\* a / b for b other than 0
FDiv(a, b) ==
  IF a.nan \/ b.nan THEN NaN
  ELSE Norm(IF b.m < 0 THEN -a.m ELSE a.m, Abs(b.m), a.e - b.e)

\* Math.sqrt: NaN below 0
FSqrt(a) ==
  IF a.nan \/ a.m < 0 THEN NaN
  ELSE IF a.m = 0 THEN a
  ELSE LET k == IF (a.e - (MantissaBits + 1)) % 2 = 0
                THEN MantissaBits + 1 ELSE MantissaBits + 2
           M == a.m * 2^k
           s == CHOOSE x \in 2^MantissaBits .. 2^(MantissaBits + 1) :
                  x * x <= M /\ M < (x + 1) * (x + 1)
           t == s \div 2
           up == s % 2 = 1 /\ (s * s # M \/ t % 2 = 1)
       IN Norm(IF up THEN t + 1 ELSE t, 1, ((a.e - k) \div 2) + 1)

(***************************************************************************)
(* fileProcessing.ts: calculateCorrelation from the filtered pairs on, in  *)
(* floating point and in the order of the code's operations                *)
(***************************************************************************)
\* terms.reduce((acc, t) => acc + t, 0) over the first k terms
RECURSIVE Reduce(_, _)
Reduce(terms, k) ==
  IF k = 0 THEN FromInt(0)
  ELSE FAdd(Reduce(terms, k - 1), terms[k])

correlationOfPairs(pairs) ==
  IF Len(pairs) < 2 THEN FromInt(0)
  ELSE LET n == FromInt(Len(pairs))
           A == [i \in 1..Len(pairs) |-> FromInt(pairs[i][1])]
           B == [i \in 1..Len(pairs) |-> FromInt(pairs[i][2])]
           AA == [i \in 1..Len(pairs) |-> FMul(A[i], A[i])]
           BB == [i \in 1..Len(pairs) |-> FMul(B[i], B[i])]
           AB == [i \in 1..Len(pairs) |-> FMul(A[i], B[i])]
           sum1 == Reduce(A, Len(pairs))
           sum2 == Reduce(B, Len(pairs))
           sum1Sq == Reduce(AA, Len(pairs))
           sum2Sq == Reduce(BB, Len(pairs))
           pSum == Reduce(AB, Len(pairs))
           num == FSub(pSum, FDiv(FMul(sum1, sum2), n))
           den == FSqrt(FMul(FSub(sum1Sq, FDiv(FMul(sum1, sum1), n)),
                             FSub(sum2Sq, FDiv(FMul(sum2, sum2), n))))
       IN IF ~den.nan /\ den.m = 0 THEN FromInt(0) ELSE FDiv(num, den)

(***************************************************************************)
(* Tuples of the state                                                     *)
(***************************************************************************)
fileVars == <<file, fpc, parsed, stats, corr, again>>

mlVars ==
  <<mlDatasetId, mlRenders, mlIsLoading, mlResult, mlError, mlProgress,
    targetColumn, testSize, availableColumns, mlDemoTimers, mlInfoFetches, mlTrain>>

edaVars ==
  <<edaDatasetId, edaRenders, edaIsLoading, edaResult, edaError, edaProgress,
    edaDemoTimers, edaRun, edaTask>>

targetVars == <<targetData, targetAnalysis>>

floatVars == <<numericPairs, coefficient>>

pureVars == <<targetVars, floatVars>>

appVars == <<route, uploadedDataset, savedDataset, navTimer>>

uploadVars == <<uploadProgress, isUploading, uploadedFile, uploadError, progressIntervals,
                resetTimers, uploadRequest, uploads>>

pollVars == <<edaRuns, edaLatest>>

homeVars == <<homeFile, homeTarget, selectedModel, isTraining, showResults, homeResult,
              homeError, homeRequests, trainings>>

authVars == <<token, now, view, requested, authRequests, authError, lastCheck>>

restVars == <<uploadVars, pollVars, homeVars, authVars>>

vars == <<fileVars, demoData, mlVars, edaVars, pureVars, appVars, restVars>>

(***************************************************************************)
(* fileProcessing.ts as a state machine: a file is parsed, then one of     *)
(* the helpers is applied to the parsed rows.                              *)
(***************************************************************************)
ColumnArgs == {"x", "y"}

NotParsed == [ok |-> FALSE, info |-> NoInfo, error |-> ""]

NoStats == [column |-> "", result |-> NullStatistics]

NoCorr == [col1 |-> "", col2 |-> "", result |-> Zero]

NoAgain == [op |-> "none", parsed |-> NotParsed, stats |-> NoStats, corr |-> NoCorr]

NoTrain == [pending |-> FALSE, datasetId |-> "", target |-> "", testSize |-> 0]

FileIdle ==
  /\ file = [kind |-> "txt", sheets |-> 0, header |-> << >>, lines |-> << >>]
  /\ fpc = "selected"
  /\ parsed = NotParsed
  /\ stats = NoStats
  /\ corr = NoCorr
  /\ again = NoAgain

\* the useState initial values of MLDashboard
MLIdle ==
  /\ mlDatasetId = ""
  /\ mlRenders = 0
  /\ mlIsLoading = FALSE
  /\ mlResult = NoMLResult
  /\ mlError = ""
  /\ mlProgress = 0
  /\ targetColumn = ""
  /\ testSize = DefaultTestSize
  /\ availableColumns = << >>
  /\ mlDemoTimers = 0
  /\ mlInfoFetches = {}
  /\ mlTrain = NoTrain

\* the useState initial values of EDADashboard
EDAIdle ==
  /\ edaDatasetId = ""
  /\ edaRenders = 0
  /\ edaIsLoading = TRUE
  /\ edaResult = NoEDAResult
  /\ edaError = ""
  /\ edaProgress = 0
  /\ edaDemoTimers = 0
  /\ edaRun = NoRun
  /\ edaTask = "none"

NoTargetData == [dtype |-> "object", values |-> << >>]

NoCoefficient == [done |-> FALSE, value |-> [m |-> 0, e |-> 0, nan |-> FALSE]]

TargetIdle ==
  /\ targetData = NoTargetData
  /\ targetAnalysis = NoTargetAnalysis

FloatIdle ==
  /\ numericPairs = << >>
  /\ coefficient = NoCoefficient

\* the application as a signed-in user without a dataset opens it
AppIdle ==
  /\ route = "/"
  /\ uploadedDataset = ""
  /\ savedDataset = ""
  /\ navTimer = FALSE

\* FileUpload as it is mounted
NoUpload == [pending |-> FALSE, size |-> 0]

UploadIdle ==
  /\ uploadProgress = 0
  /\ isUploading = FALSE
  /\ uploadedFile = ""
  /\ uploadError = ""
  /\ progressIntervals = 0
  /\ resetTimers = 0
  /\ uploadRequest = NoUpload
  /\ uploads = 0

\* no analysis was started
PollsIdle ==
  /\ edaRuns = [n \in 1..MaxRuns |-> NoRun]
  /\ edaLatest = 0

\* mlResult === null
NoHomeResult == [present |-> FALSE, file |-> "", target |-> "", model |-> ""]

\* MLSection as it is mounted without a file
HomeIdle ==
  /\ homeFile = ""
  /\ homeTarget = ""
  /\ selectedModel = ""
  /\ isTraining = FALSE
  /\ showResults = FALSE
  /\ homeResult = NoHomeResult
  /\ homeError = ""
  /\ homeRequests = {}
  /\ trainings = 0

\* localStorage.getItem('token') === null
NoToken == [segments |-> 0, alphabet |-> "", json |-> FALSE, exp |-> 0]

\* a signed-in user on the home page: the token is of no concern
AuthIdle ==
  /\ token = NoToken
  /\ now = 0
  /\ view = "home"
  /\ requested = "/"
  /\ authRequests = {}
  /\ authError = ""
  /\ lastCheck = 0

RestIdle ==
  /\ UploadIdle
  /\ PollsIdle
  /\ HomeIdle
  /\ AuthIdle

PureIdle ==
  /\ TargetIdle
  /\ FloatIdle
  /\ AppIdle

InitFile ==
  /\ IsFile(file)
  /\ fpc = "selected"
  /\ parsed = NotParsed
  /\ stats = NoStats
  /\ corr = NoCorr
  /\ again = NoAgain
  /\ demoData = FALSE
  /\ MLIdle
  /\ EDAIdle
  /\ RestIdle
  /\ PureIdle

ParseFile ==
  /\ fpc = "selected"
  /\ parsed' = parseFile(file)
  /\ fpc' = IF parseFile(file).ok THEN "resolved" ELSE "rejected"
  /\ UNCHANGED <<file, stats, corr, again, demoData, mlVars, edaVars, pureVars, appVars, restVars>>

CalculateStatistics(column) ==
  /\ fpc = "resolved"
  /\ stats' = [column |-> column,
               result |-> calculateStatistics(parsed.info.data, column)]
  /\ fpc' = "statistics"
  /\ UNCHANGED <<file, parsed, corr, again, demoData, mlVars, edaVars, pureVars, appVars, restVars>>

CalculateCorrelation(col1, col2) ==
  /\ fpc = "resolved"
  /\ corr' = [col1 |-> col1, col2 |-> col2,
              result |-> calculateCorrelation(parsed.info.data, col1, col2)]
  /\ fpc' = "correlation"
  /\ UNCHANGED <<file, parsed, stats, again, demoData, mlVars, edaVars, pureVars, appVars, restVars>>

\* parseFile called once more with the same file
ParseFileAgain ==
  /\ fpc \in {"resolved", "rejected"}
  /\ again.op = "none"
  /\ again' = [again EXCEPT !.op = "parse", !.parsed = parseFile(file)]
  /\ UNCHANGED <<file, fpc, parsed, stats, corr, demoData, mlVars, edaVars, pureVars, appVars, restVars>>

\* calculateStatistics called once more with the same rows and column
CalculateStatisticsAgain ==
  /\ fpc = "statistics"
  /\ again.op = "none"
  /\ again' = [again EXCEPT
                 !.op = "statistics",
                 !.stats = [column |-> stats.column,
                            result |-> calculateStatistics(parsed.info.data, stats.column)]]
  /\ UNCHANGED <<file, fpc, parsed, stats, corr, demoData, mlVars, edaVars, pureVars, appVars, restVars>>

\* calculateCorrelation called once more with the same rows and columns
CalculateCorrelationAgain ==
  /\ fpc = "correlation"
  /\ again.op = "none"
  /\ again' = [again EXCEPT
                 !.op = "correlation",
                 !.corr = [col1 |-> corr.col1, col2 |-> corr.col2,
                           result |-> calculateCorrelation(parsed.info.data,
                                                           corr.col1, corr.col2)]]
  /\ UNCHANGED <<file, fpc, parsed, stats, corr, demoData, mlVars, edaVars, pureVars, appVars, restVars>>

NextFile ==
  \/ ParseFile
  \/ \E column \in ColumnArgs : CalculateStatistics(column)
  \/ \E col1, col2 \in ColumnArgs : CalculateCorrelation(col1, col2)
  \/ ParseFileAgain
  \/ CalculateStatisticsAgain
  \/ CalculateCorrelationAgain

SpecFile == InitFile /\ [][NextFile]_vars

(***************************************************************************)
(* MLDashboard.tsx as a state machine                                      *)
(***************************************************************************)
DatasetIds == BackendDatasetIds \cup {DemoDatasetId}

TestSizeInputs == {10, 50, 90}

MLErrorView == ~mlIsLoading /\ mlError # ""

MLConfigView == ~mlIsLoading /\ mlError = "" /\ ~mlResult.present

InitML ==
  /\ FileIdle
  /\ demoData = FALSE
  /\ MLIdle
  /\ EDAIdle
  /\ RestIdle
  /\ PureIdle

\* the parent renders the dashboard with another datasetId; useEffect runs
MLRender(id) ==
  /\ mlRenders < MaxRenders
  /\ id # mlDatasetId
  /\ id = DemoDatasetId => demoData
  /\ mlDatasetId' = id
  /\ mlRenders' = mlRenders + 1
  /\ IF id = DemoDatasetId
     THEN /\ availableColumns' = DemoColumns
          /\ targetColumn' = DemoTarget
          /\ mlDemoTimers' = mlDemoTimers + 1
          /\ UNCHANGED mlInfoFetches
     ELSE /\ mlInfoFetches' = mlInfoFetches \cup {id}
          /\ UNCHANGED <<availableColumns, targetColumn, mlDemoTimers>>
  /\ UNCHANGED <<demoData, mlIsLoading, mlResult, mlError, mlProgress, testSize,
                 mlTrain, fileVars, edaVars, pureVars, appVars, restVars>>

\* App.handleLoadDemoDataset: window.demoData is set and the demo dataset
\* becomes the uploaded dataset, which re-renders a mounted dashboard
LoadDemoDataset ==
  /\ mlRenders < MaxRenders
  /\ mlDatasetId # DemoDatasetId
  /\ demoData' = TRUE
  /\ mlDatasetId' = DemoDatasetId
  /\ mlRenders' = mlRenders + 1
  /\ availableColumns' = DemoColumns
  /\ targetColumn' = DemoTarget
  /\ mlDemoTimers' = mlDemoTimers + 1
  /\ UNCHANGED <<mlInfoFetches, mlIsLoading, mlResult, mlError, mlProgress, testSize,
                 mlTrain, fileVars, edaVars, pureVars, appVars, restVars>>

\* setTimeout(() => setMlResult(generateRealisticMLResults()), 2000)
MLDemoTimerFires ==
  /\ mlDemoTimers > 0
  /\ mlDemoTimers' = mlDemoTimers - 1
  /\ mlResult' = DemoMLResult
  /\ UNCHANGED <<demoData, mlDatasetId, mlRenders, mlIsLoading, mlError, mlProgress,
                 targetColumn, testSize, availableColumns, mlInfoFetches, mlTrain,
                 fileVars, edaVars, pureVars, appVars, restVars>>

\* fetchDatasetInfo: the response of GET /api/files/datasets/{datasetId}
MLDatasetInfoResponse(id, ok) ==
  /\ id \in mlInfoFetches
  /\ mlInfoFetches' = mlInfoFetches \ {id}
  /\ availableColumns' = IF ok /\ id \in BackendDatasetIds
                         THEN DatasetColumns(id) ELSE availableColumns
  /\ UNCHANGED <<demoData, mlDatasetId, mlRenders, mlIsLoading, mlResult, mlError,
                 mlProgress, targetColumn, testSize, mlDemoTimers, mlTrain, fileVars, edaVars, pureVars, appVars, restVars>>

\* <Select value={targetColumn} onValueChange={setTargetColumn}>
MLSelectTarget(column) ==
  /\ mlDatasetId # ""
  /\ MLConfigView
  /\ column \in Range(availableColumns)
  /\ column # targetColumn
  /\ targetColumn' = column
  /\ UNCHANGED <<demoData, mlDatasetId, mlRenders, mlIsLoading, mlResult, mlError,
                 mlProgress, testSize, availableColumns, mlDemoTimers, mlInfoFetches,
                 mlTrain, fileVars, edaVars, pureVars, appVars, restVars>>

\* onChange={(e) => setTestSize(parseFloat(e.target.value))}
MLSetTestSize(v) ==
  /\ mlDatasetId # ""
  /\ MLConfigView
  /\ v # testSize
  /\ testSize' = v
  /\ UNCHANGED <<demoData, mlDatasetId, mlRenders, mlIsLoading, mlResult, mlError,
                 mlProgress, targetColumn, availableColumns, mlDemoTimers,
                 mlInfoFetches, mlTrain, fileVars, edaVars, pureVars, appVars, restVars>>

\* startMLTraining up to the fetch: "Start Training" of the form (disabled
\* without a target) or "Retry Training" of the error view
MLStartTraining ==
  /\ mlDatasetId # ""
  /\ (MLConfigView /\ targetColumn # "") \/ MLErrorView
  /\ IF targetColumn = ""
     THEN /\ mlError' = SelectTargetFirst
          /\ UNCHANGED <<mlIsLoading, mlProgress, mlTrain>>
     ELSE /\ mlIsLoading' = TRUE
          /\ mlError' = ""
          /\ mlProgress' = 0
          /\ mlTrain' = [pending |-> TRUE, datasetId |-> mlDatasetId,
                         target |-> targetColumn, testSize |-> testSize]
  /\ UNCHANGED <<demoData, mlDatasetId, mlRenders, mlResult, targetColumn, testSize,
                 availableColumns, mlDemoTimers, mlInfoFetches, fileVars, edaVars, pureVars, appVars, restVars>>

\* startMLTraining from the response on
MLTrainResponse(scores, failed) ==
  /\ mlTrain.pending
  /\ LET resp == train_model(mlTrain.datasetId, mlTrain.target, scores, failed)
         out == TrainOutcome(resp, [mlResult |-> mlResult, mlProgress |-> mlProgress])
     IN /\ mlResult' = out.mlResult
        /\ mlError' = out.mlError
        /\ mlProgress' = out.mlProgress
  /\ mlIsLoading' = FALSE
  /\ mlTrain' = NoTrain
  /\ UNCHANGED <<demoData, mlDatasetId, mlRenders, targetColumn, testSize,
                 availableColumns, mlDemoTimers, mlInfoFetches, fileVars, edaVars, pureVars, appVars, restVars>>

\* the fetch itself rejects: catch (err) { setError(err.message) }
MLTrainNetworkError ==
  /\ mlTrain.pending
  /\ mlError' = FailedToFetch
  /\ mlIsLoading' = FALSE
  /\ mlTrain' = NoTrain
  /\ UNCHANGED <<demoData, mlDatasetId, mlRenders, mlResult, mlProgress, targetColumn,
                 testSize, availableColumns, mlDemoTimers, mlInfoFetches, fileVars, edaVars, pureVars, appVars, restVars>>

\* "Load Demo Data" of the error view
MLLoadDemoData ==
  /\ mlDatasetId # ""
  /\ MLErrorView
  /\ mlResult' = FallbackMLResult
  /\ mlError' = ""
  /\ mlIsLoading' = FALSE
  /\ UNCHANGED <<demoData, mlDatasetId, mlRenders, mlProgress, targetColumn, testSize,
                 availableColumns, mlDemoTimers, mlInfoFetches, mlTrain, fileVars, edaVars, pureVars, appVars, restVars>>

NextML ==
  \/ \E id \in DatasetIds : MLRender(id)
  \/ LoadDemoDataset
  \/ MLDemoTimerFires
  \/ \E id \in DatasetIds, ok \in BOOLEAN : MLDatasetInfoResponse(id, ok)
  \/ \E column \in Range(DemoColumns) \cup UNION {Range(DatasetColumns(id)) : id \in BackendDatasetIds} :
       MLSelectTarget(column)
  \/ \E v \in TestSizeInputs \cup {DefaultTestSize} : MLSetTestSize(v)
  \/ MLStartTraining
  \/ \E failed \in Failures : \E scores \in Scores(failed) : MLTrainResponse(scores, failed)
  \/ MLTrainNetworkError
  \/ MLLoadDemoData

SpecML == InitML /\ [][NextML]_vars

(***************************************************************************)
(* EDADashboard.tsx as a state machine.  One startEDAAnalysis call is      *)
(* followed at a time: the prop changes and the retry happen between calls.*)
(***************************************************************************)
EDAErrorView == ~edaIsLoading /\ edaError # ""

InitEDA ==
  /\ FileIdle
  /\ demoData = FALSE
  /\ MLIdle
  /\ EDAIdle
  /\ RestIdle
  /\ PureIdle

\* the parent renders the dashboard with another datasetId; useEffect runs:
\* the demo branch arms its timer, any other dataset calls startEDAAnalysis
EDARender(id) ==
  /\ edaRenders < MaxRenders
  /\ edaRun.phase = "none"
  /\ id # edaDatasetId
  /\ id = DemoDatasetId => demoData
  /\ edaDatasetId' = id
  /\ edaRenders' = edaRenders + 1
  /\ IF id = DemoDatasetId
     THEN /\ edaDemoTimers' = edaDemoTimers + 1
          /\ UNCHANGED <<edaIsLoading, edaError, edaProgress, edaRun>>
     ELSE /\ edaIsLoading' = TRUE
          /\ edaError' = ""
          /\ edaProgress' = 0
          /\ edaRun' = [phase |-> "health", datasetId |-> id, attempts |-> 0]
          /\ UNCHANGED edaDemoTimers
  /\ UNCHANGED <<demoData, edaResult, edaTask, fileVars, mlVars, pureVars, appVars, restVars>>

\* App.handleLoadDemoDataset while the EDA dashboard may be mounted
EDALoadDemoDataset ==
  /\ edaRenders < MaxRenders
  /\ edaRun.phase = "none"
  /\ edaDatasetId # DemoDatasetId
  /\ demoData' = TRUE
  /\ edaDatasetId' = DemoDatasetId
  /\ edaRenders' = edaRenders + 1
  /\ edaDemoTimers' = edaDemoTimers + 1
  /\ UNCHANGED <<edaIsLoading, edaResult, edaError, edaProgress, edaRun, edaTask,
                 fileVars, mlVars, pureVars, appVars, restVars>>

\* setTimeout(() => { setEdaResult(...); setIsLoading(false); setProgress(100) }, 1500)
EDADemoTimerFires ==
  /\ edaDemoTimers > 0
  /\ edaDemoTimers' = edaDemoTimers - 1
  /\ edaResult' = DemoEDAResult
  /\ edaIsLoading' = FALSE
  /\ edaProgress' = 100
  /\ UNCHANGED <<demoData, edaDatasetId, edaRenders, edaError, edaRun, edaTask,
                 fileVars, mlVars, pureVars, appVars, restVars>>

\* the health check fetch of startEDAAnalysis settles
EDAHealthCheck(ok) ==
  /\ edaRun.phase = "health"
  /\ IF ok
     THEN /\ edaRun' = [edaRun EXCEPT !.phase = "start"]
          /\ UNCHANGED <<edaError, edaIsLoading>>
     ELSE /\ edaRun' = NoRun
          /\ edaError' = NotReachable
          /\ edaIsLoading' = FALSE
  /\ UNCHANGED <<demoData, edaDatasetId, edaRenders, edaResult, edaProgress,
                 edaDemoTimers, edaTask, fileVars, mlVars, pureVars, appVars, restVars>>

\* the response of POST /api/v1/eda/analyze/{datasetId}; on success the
\* first poll is scheduled
EDAStartResponse(ok) ==
  /\ edaRun.phase = "start"
  /\ IF ok /\ edaRun.datasetId \in BackendDatasetIds
     THEN /\ edaRun' = [edaRun EXCEPT !.phase = "wait"]
          /\ edaTask' = "queued"
          /\ UNCHANGED <<edaError, edaIsLoading>>
     ELSE /\ edaRun' = NoRun
          /\ edaError' = AnalysisFailedToStart
          /\ edaIsLoading' = FALSE
          /\ UNCHANGED edaTask
  /\ UNCHANGED <<demoData, edaDatasetId, edaRenders, edaResult, edaProgress,
                 edaDemoTimers, fileVars, mlVars, pureVars, appVars, restVars>>

\* the backend works on the task
EDATaskStep(next) ==
  /\ \/ edaTask = "queued" /\ next = "running"
     \/ edaTask = "running" /\ next \in {"completed", "failed"}
  /\ edaTask' = next
  /\ UNCHANGED <<demoData, edaDatasetId, edaRenders, edaIsLoading, edaResult, edaError,
                 edaProgress, edaDemoTimers, edaRun, fileVars, mlVars, pureVars, appVars, restVars>>

\* pollResults up to its fetch; the percentage is kept as a whole number
EDAPollTimer ==
  /\ edaRun.phase = "wait"
  /\ edaProgress' = Min((edaRun.attempts * 100) \div maxAttempts, 90)
  /\ edaRun' = [edaRun EXCEPT !.phase = "fetch"]
  /\ UNCHANGED <<demoData, edaDatasetId, edaRenders, edaIsLoading, edaResult, edaError,
                 edaDemoTimers, edaTask, fileVars, mlVars, pureVars, appVars, restVars>>

\* the correlation matrices the backend may have computed for a dataset
Matrices(id) == [ColumnPairs(NumericalColumns(id)) -> CorrValues]

\* resultData.status of a response: the task's status, or undefined when
\* the server answers with an error body (resultResponse.ok is not looked at)
NoStatus == "undefined"

ReportedStatus(ok) == IF ok THEN edaTask ELSE NoStatus

EDAPollResponseStillLoading(ok, matrix) ==
  /\ edaRun.phase = "fetch"
  /\ IF ReportedStatus(ok) = "completed"
     THEN /\ edaResult' = AnalysisReport(edaRun.datasetId, matrix)
          /\ edaProgress' = 100
          /\ edaIsLoading' = FALSE
          /\ edaRun' = NoRun
          /\ UNCHANGED edaError
     ELSE IF ReportedStatus(ok) = "failed"
     THEN /\ edaError' = AnalysisFailed
          /\ edaIsLoading' = FALSE
          /\ edaRun' = NoRun
          /\ UNCHANGED <<edaResult, edaProgress>>
     ELSE IF edaRun.attempts + 1 < maxAttempts
     THEN /\ edaRun' = [edaRun EXCEPT !.phase = "wait", !.attempts = @ + 1]
          /\ UNCHANGED <<edaResult, edaProgress, edaIsLoading, edaError>>
     ELSE /\ edaError' = AnalysisTimedOut
          /\ edaRun' = NoRun
          /\ UNCHANGED <<edaResult, edaProgress, edaIsLoading>>
  /\ UNCHANGED <<demoData, edaDatasetId, edaRenders, edaDemoTimers, edaTask, fileVars,
                 mlVars, pureVars, appVars, restVars>>

\* pollResults from the response on
EDAPollResponse(ok, matrix) ==
  /\ edaRun.phase = "fetch"
  /\ IF ReportedStatus(ok) = "completed"
     THEN /\ edaResult' = AnalysisReport(edaRun.datasetId, matrix)
          /\ edaProgress' = 100
          /\ edaIsLoading' = FALSE
          /\ edaRun' = NoRun
          /\ UNCHANGED edaError
     ELSE IF ReportedStatus(ok) = "failed"
     THEN /\ edaError' = AnalysisFailed
          /\ edaIsLoading' = FALSE
          /\ edaRun' = NoRun
          /\ UNCHANGED <<edaResult, edaProgress>>
     ELSE IF edaRun.attempts + 1 < maxAttempts
     THEN /\ edaRun' = [edaRun EXCEPT !.phase = "wait", !.attempts = @ + 1]
          /\ UNCHANGED <<edaResult, edaProgress, edaIsLoading, edaError>>
     ELSE /\ edaError' = AnalysisTimedOut
          /\ edaIsLoading' = FALSE
          /\ edaRun' = NoRun
          /\ UNCHANGED <<edaResult, edaProgress>>
  /\ UNCHANGED <<demoData, edaDatasetId, edaRenders, edaDemoTimers, edaTask, fileVars,
                 mlVars, pureVars, appVars, restVars>>

\* the poll fetch rejects: catch (err) { setError(err.message) }
EDAPollNetworkError ==
  /\ edaRun.phase = "fetch"
  /\ edaError' = FailedToFetch
  /\ edaIsLoading' = FALSE
  /\ edaRun' = NoRun
  /\ UNCHANGED <<demoData, edaDatasetId, edaRenders, edaResult, edaProgress,
                 edaDemoTimers, edaTask, fileVars, mlVars, pureVars, appVars, restVars>>

\* "Retry Analysis" of the error view
EDARetry ==
  /\ edaDatasetId # ""
  /\ EDAErrorView
  /\ edaRun.phase = "none"
  /\ edaIsLoading' = TRUE
  /\ edaError' = ""
  /\ edaProgress' = 0
  /\ edaRun' = [phase |-> "health", datasetId |-> edaDatasetId, attempts |-> 0]
  /\ UNCHANGED <<demoData, edaDatasetId, edaRenders, edaResult, edaDemoTimers, edaTask,
                 fileVars, mlVars, pureVars, appVars, restVars>>

\* "Load Demo Data" of the error view
EDALoadDemoData ==
  /\ edaDatasetId # ""
  /\ EDAErrorView
  /\ edaResult' = FallbackEDAResult
  /\ edaError' = ""
  /\ edaIsLoading' = FALSE
  /\ UNCHANGED <<demoData, edaDatasetId, edaRenders, edaProgress, edaDemoTimers,
                 edaRun, edaTask, fileVars, mlVars, pureVars, appVars, restVars>>

NextEDA ==
  \/ \E id \in DatasetIds : EDARender(id)
  \/ EDALoadDemoDataset
  \/ EDADemoTimerFires
  \/ \E ok \in BOOLEAN : EDAHealthCheck(ok)
  \/ \E ok \in BOOLEAN : EDAStartResponse(ok)
  \/ \E next \in {"running", "completed", "failed"} : EDATaskStep(next)
  \/ EDAPollTimer
  \/ \E ok \in BOOLEAN, matrix \in Matrices(edaRun.datasetId) : EDAPollResponse(ok, matrix)
  \/ EDAPollNetworkError
  \/ EDARetry
  \/ EDALoadDemoData

SpecEDA == InitEDA /\ [][NextEDA]_vars

\* the poll timer fires and every result query settles
SpecEDALive ==
  /\ SpecEDA
  /\ WF_vars(EDAPollTimer)
  /\ WF_vars(EDAPollNetworkError \/ \E ok \in BOOLEAN, matrix \in Matrices(edaRun.datasetId) : EDAPollResponse(ok, matrix))

(***************************************************************************)
(* App (part_006): the router, the uploaded dataset and the "Demo Data"    *)
(* button, with the ML dashboard as the /ml route mounts it.  The user is  *)
(* signed in and moves between the home, upload and ML routes.             *)
(***************************************************************************)
Routes == {"/", "/upload", "/ml"}

\* <MLDashboard datasetId=..> is mounted: the useState initial values, then
\* the useEffect for the datasetId
MLMount(id, demo) ==
  /\ mlDatasetId' = id
  /\ mlIsLoading' = FALSE
  /\ mlResult' = NoMLResult
  /\ mlError' = ""
  /\ mlProgress' = 0
  /\ testSize' = DefaultTestSize
  /\ mlTrain' = NoTrain
  /\ IF id = DemoDatasetId /\ demo
     THEN /\ availableColumns' = DemoColumns
          /\ targetColumn' = DemoTarget
          /\ mlDemoTimers' = 1
          /\ mlInfoFetches' = {}
     ELSE /\ availableColumns' = << >>
          /\ targetColumn' = ""
          /\ mlDemoTimers' = 0
          /\ mlInfoFetches' = {id}

\* the dashboard is not on the page: what it held and scheduled is gone
MLUnmount ==
  /\ mlDatasetId' = ""
  /\ mlIsLoading' = FALSE
  /\ mlResult' = NoMLResult
  /\ mlError' = ""
  /\ mlProgress' = 0
  /\ targetColumn' = ""
  /\ testSize' = DefaultTestSize
  /\ availableColumns' = << >>
  /\ mlDemoTimers' = 0
  /\ mlInfoFetches' = {}
  /\ mlTrain' = NoTrain

InitApp ==
  /\ FileIdle
  /\ demoData = FALSE
  /\ MLIdle
  /\ EDAIdle
  /\ RestIdle
  /\ TargetIdle
  /\ FloatIdle
  /\ route = "/"
  /\ savedDataset \in {""} \cup BackendDatasetIds
  /\ uploadedDataset = savedDataset
  /\ navTimer = FALSE

\* a <Link> of the header; the ML link exists with an uploaded dataset
AppNavigate(r) ==
  /\ r # route
  /\ r = "/ml" => uploadedDataset # ""
  /\ route' = r
  /\ IF r = "/ml" THEN MLMount(uploadedDataset, demoData)
     ELSE IF route = "/ml" THEN MLUnmount
     ELSE UNCHANGED <<mlDatasetId, mlIsLoading, mlResult, mlError, mlProgress,
                      targetColumn, testSize, availableColumns, mlDemoTimers,
                      mlInfoFetches, mlTrain>>
  /\ UNCHANGED <<uploadedDataset, savedDataset, navTimer, demoData, mlRenders,
                 fileVars, edaVars, pureVars, restVars>>

\* handleFileUploaded, called by FileUpload on the upload route
AppFileUploaded(id) ==
  /\ route = "/upload"
  /\ uploadedDataset' = id
  /\ savedDataset' = id
  /\ UNCHANGED <<route, navTimer, demoData, mlVars, fileVars, edaVars, pureVars, restVars>>

\* handleLoadDemoDataset: the state and window.demoData are set, nothing is
\* written to localStorage and the 100 ms timer is armed; a mounted
\* dashboard is rendered again with the demo datasetId
AppLoadDemoDataset ==
  /\ ~navTimer
  /\ uploadedDataset' = DemoDatasetId
  /\ demoData' = TRUE
  /\ navTimer' = TRUE
  /\ IF route = "/ml" /\ mlDatasetId # DemoDatasetId
     THEN /\ mlDatasetId' = DemoDatasetId
          /\ availableColumns' = DemoColumns
          /\ targetColumn' = DemoTarget
          /\ mlDemoTimers' = mlDemoTimers + 1
     ELSE UNCHANGED <<mlDatasetId, availableColumns, targetColumn, mlDemoTimers>>
  /\ UNCHANGED <<route, savedDataset, mlRenders, mlIsLoading, mlResult, mlError,
                 mlProgress, testSize, mlInfoFetches, mlTrain, fileVars, edaVars,
                 pureVars, restVars>>

\* the timer: window.location.href = '/ml' loads the page anew, so window
\* and component state start over and uploadedDataset is read from
\* localStorage; without one the /ml route redirects to /upload
AppNavTimerFires ==
  /\ navTimer
  /\ navTimer' = FALSE
  /\ demoData' = FALSE
  /\ uploadedDataset' = savedDataset
  /\ IF savedDataset # ""
     THEN /\ route' = "/ml"
          /\ MLMount(savedDataset, FALSE)
     ELSE /\ route' = "/upload"
          /\ MLUnmount
  /\ UNCHANGED <<savedDataset, mlRenders, fileVars, edaVars, pureVars, restVars>>

NextApp ==
  \/ \E r \in Routes : AppNavigate(r)
  \/ \E id \in BackendDatasetIds : AppFileUploaded(id)
  \/ AppLoadDemoDataset
  \/ AppNavTimerFires
  \/ MLDemoTimerFires
  \/ \E id \in DatasetIds, ok \in BOOLEAN : MLDatasetInfoResponse(id, ok)
  \/ \E column \in Range(DemoColumns) \cup UNION {Range(DatasetColumns(id)) : id \in BackendDatasetIds} : MLSelectTarget(column)
  \/ \E v \in TestSizeInputs \cup {DefaultTestSize} : MLSetTestSize(v)
  \/ MLStartTraining
  \/ \E failed \in Failures : \E scores \in Scores(failed) : MLTrainResponse(scores, failed)
  \/ MLTrainNetworkError
  \/ MLLoadDemoData

SpecApp == InitApp /\ [][NextApp]_vars

\* timers fire and requests are answered
SpecAppLive ==
  /\ SpecApp
  /\ WF_vars(AppNavTimerFires)
  /\ WF_vars(MLDemoTimerFires)
  /\ WF_vars(\E id \in DatasetIds, ok \in BOOLEAN : MLDatasetInfoResponse(id, ok))
  /\ WF_vars(MLTrainNetworkError \/ \E failed \in Failures : \E scores \in Scores(failed) : MLTrainResponse(scores, failed))

(***************************************************************************)
(* FileUpload (part_002): validation, the upload request and its simulated *)
(* progress.  File sizes are whole megabytes.  One upload is in flight at  *)
(* a time: the drop area ignores the pointer while isUploading.            *)
(***************************************************************************)
\* file.size > 50 * 1024 * 1024
UploadLimitMB == 50

\* "Maximum file size: 10MB" of the user guide and of the API reference
DocumentedLimitMB == 10

FileSizesMB == {1, DocumentedLimitMB, DocumentedLimitMB + 1, UploadLimitMB, UploadLimitMB + 1}

UploadableFiles == [size : FileSizesMB, typeOk : BOOLEAN]

WrongType == "Please upload a CSV or Excel file (.csv, .xlsx)"

TooLarge == "File size must be less than 50MB"

UploadFailed == "Upload failed"

\* "" is null
validateFile(f) ==
  IF ~f.typeOk THEN WrongType
  ELSE IF f.size > UploadLimitMB THEN TooLarge
  ELSE ""

\* uploadFile up to the fetch
UploadFile(f) ==
  /\ ~isUploading
  /\ IF validateFile(f) # ""
     THEN /\ uploadError' = validateFile(f)
          /\ UNCHANGED <<uploadProgress, isUploading, progressIntervals, uploadRequest, uploads>>
     ELSE /\ uploads < MaxUploads
          /\ uploads' = uploads + 1
          /\ isUploading' = TRUE
          /\ uploadError' = ""
          /\ uploadProgress' = 0
          /\ progressIntervals' = progressIntervals + 1
          /\ uploadRequest' = [pending |-> TRUE, size |-> f.size]
  /\ UNCHANGED <<uploadedFile, resetTimers, fileVars, demoData, mlVars, edaVars, pureVars, appVars, pollVars, homeVars, authVars>>

\* setInterval(() => setUploadProgress(prev => Math.min(prev + 10, 90)), 200)
UploadProgressTick ==
  /\ progressIntervals > 0
  /\ uploadProgress # Min(uploadProgress + 10, 90)
  /\ uploadProgress' = Min(uploadProgress + 10, 90)
  /\ UNCHANGED <<isUploading, uploadedFile, uploadError, progressIntervals, resetTimers,
                 uploadRequest, uploads, fileVars, demoData, mlVars, edaVars, pureVars, appVars, pollVars, homeVars, authVars>>

\* uploadFile from the response on; onFileUploaded is App.handleFileUploaded
UploadResponse(ok, id) ==
  /\ uploadRequest.pending
  /\ progressIntervals' = progressIntervals - 1
  /\ IF ok
     THEN /\ uploadProgress' = 100
          /\ uploadedFile' = id
          /\ uploadedDataset' = id
          /\ savedDataset' = id
          /\ resetTimers' = resetTimers + 1
          /\ UNCHANGED uploadError
     ELSE /\ uploadError' = UploadFailed
          /\ uploadProgress' = 0
          /\ UNCHANGED <<uploadedFile, uploadedDataset, savedDataset, resetTimers>>
  /\ isUploading' = FALSE
  /\ uploadRequest' = NoUpload
  /\ UNCHANGED <<uploads, route, navTimer, fileVars, demoData, mlVars, edaVars, pureVars, pollVars, homeVars, authVars>>

\* the fetch rejects: the catch block runs, clearInterval is not reached
UploadNetworkError ==
  /\ uploadRequest.pending
  /\ uploadError' = FailedToFetch
  /\ uploadProgress' = 0
  /\ isUploading' = FALSE
  /\ uploadRequest' = NoUpload
  /\ UNCHANGED <<uploadedFile, progressIntervals, resetTimers, uploads, fileVars, demoData,
                 mlVars, edaVars, pureVars, appVars, pollVars, homeVars, authVars>>

\* setTimeout(() => { setUploadProgress(0) }, 3000)
UploadResetTimerFires ==
  /\ resetTimers > 0
  /\ resetTimers' = resetTimers - 1
  /\ uploadProgress' = 0
  /\ UNCHANGED <<isUploading, uploadedFile, uploadError, progressIntervals, uploadRequest,
                 uploads, fileVars, demoData, mlVars, edaVars, pureVars, appVars, pollVars, homeVars, authVars>>

clearUploadedFile ==
  /\ uploadedFile # ""
  /\ uploadedFile' = ""
  /\ uploadError' = ""
  /\ uploadProgress' = 0
  /\ UNCHANGED <<isUploading, progressIntervals, resetTimers, uploadRequest, uploads,
                 fileVars, demoData, mlVars, edaVars, pureVars, appVars, pollVars, homeVars, authVars>>

InitUpload ==
  /\ FileIdle
  /\ demoData = FALSE
  /\ MLIdle
  /\ EDAIdle
  /\ RestIdle
  /\ PureIdle

NextUpload ==
  \/ \E f \in UploadableFiles : UploadFile(f)
  \/ UploadProgressTick
  \/ \E ok \in BOOLEAN, id \in BackendDatasetIds : UploadResponse(ok, id)
  \/ UploadNetworkError
  \/ UploadResetTimerFires
  \/ clearUploadedFile

SpecUpload == InitUpload /\ [][NextUpload]_vars

(***************************************************************************)
(* EDADashboard.tsx with the analyses it starts side by side.  The effect  *)
(* of a new datasetId and "Retry Analysis" call startEDAAnalysis (or arm   *)
(* the demo timer) without looking at the calls still under way; each call *)
(* and its poll loop runs on in its own closure.  The backend's answers    *)
(* are inputs here.                                                        *)
(***************************************************************************)
PollStatuses == {"queued", "running", "completed", "failed", NoStatus}

\* the matrix the backend computed for a dataset
StoredMatrix(id) == [p \in ColumnPairs(NumericalColumns(id)) |-> 85]

Running(n) == edaRuns[n].phase # "none"

\* the call or timer number n has ended
RunEnds(n) == edaRuns' = [edaRuns EXCEPT ![n] = NoRun]

\* startEDAAnalysis up to its first fetch, as call number n
startEDAAnalysis(n, id) ==
  /\ edaIsLoading' = TRUE
  /\ edaError' = ""
  /\ edaProgress' = 0
  /\ edaRuns' = [edaRuns EXCEPT ![n] = [phase |-> "health", datasetId |-> id, attempts |-> 0]]
  /\ edaLatest' = n

\* useEffect(..., [datasetId]) for a new datasetId
PollsRender(id) ==
  /\ edaLatest < MaxRuns
  /\ id # edaDatasetId
  /\ id = DemoDatasetId => demoData
  /\ edaDatasetId' = id
  /\ IF id = DemoDatasetId
     THEN /\ edaRuns' = [edaRuns EXCEPT ![edaLatest + 1] = [phase |-> "demo", datasetId |-> id, attempts |-> 0]]
          /\ edaLatest' = edaLatest + 1
          /\ UNCHANGED <<edaIsLoading, edaError, edaProgress>>
     ELSE startEDAAnalysis(edaLatest + 1, id)
  /\ UNCHANGED <<demoData, edaRenders, edaResult, edaDemoTimers, edaRun, edaTask, uploadVars,
                 fileVars, mlVars, pureVars, appVars, homeVars, authVars>>

\* App.handleLoadDemoDataset, then the effect for the demo datasetId
PollsLoadDemoDataset ==
  /\ edaLatest < MaxRuns
  /\ edaDatasetId # DemoDatasetId
  /\ demoData' = TRUE
  /\ edaDatasetId' = DemoDatasetId
  /\ edaRuns' = [edaRuns EXCEPT ![edaLatest + 1] = [phase |-> "demo", datasetId |-> DemoDatasetId, attempts |-> 0]]
  /\ edaLatest' = edaLatest + 1
  /\ UNCHANGED <<edaIsLoading, edaError, edaProgress, edaRenders, edaResult, edaDemoTimers,
                 edaRun, edaTask, uploadVars, fileVars, mlVars, pureVars, appVars, homeVars, authVars>>

\* "Retry Analysis" of the error view
PollsRetry ==
  /\ edaLatest < MaxRuns
  /\ edaDatasetId # ""
  /\ EDAErrorView
  /\ startEDAAnalysis(edaLatest + 1, edaDatasetId)
  /\ UNCHANGED <<demoData, edaDatasetId, edaRenders, edaResult, edaDemoTimers, edaRun, edaTask,
                 uploadVars, fileVars, mlVars, pureVars, appVars, homeVars, authVars>>

\* the 1500 ms timer of the demo branch
PollsDemoTimerFires(n) ==
  /\ edaRuns[n].phase = "demo"
  /\ edaResult' = DemoEDAResult
  /\ edaIsLoading' = FALSE
  /\ edaProgress' = 100
  /\ RunEnds(n)
  /\ UNCHANGED <<demoData, edaDatasetId, edaRenders, edaError, edaDemoTimers, edaRun, edaTask,
                 edaLatest, uploadVars, fileVars, mlVars, pureVars, appVars, homeVars, authVars>>

\* the outer catch of startEDAAnalysis
StartFails(n, message) ==
  /\ edaError' = message
  /\ edaIsLoading' = FALSE
  /\ RunEnds(n)

PollsHealthCheck(n, ok) ==
  /\ edaRuns[n].phase = "health"
  /\ IF ok
     THEN /\ edaRuns' = [edaRuns EXCEPT ![n].phase = "start"]
          /\ UNCHANGED <<edaError, edaIsLoading>>
     ELSE StartFails(n, NotReachable)
  /\ UNCHANGED <<demoData, edaDatasetId, edaRenders, edaResult, edaProgress, edaDemoTimers,
                 edaRun, edaTask, edaLatest, uploadVars, fileVars, mlVars, pureVars, appVars, homeVars, authVars>>

PollsStartResponse(n, ok) ==
  /\ edaRuns[n].phase = "start"
  /\ IF ok /\ edaRuns[n].datasetId \in BackendDatasetIds
     THEN /\ edaRuns' = [edaRuns EXCEPT ![n].phase = "wait"]
          /\ UNCHANGED <<edaError, edaIsLoading>>
     ELSE StartFails(n, AnalysisFailedToStart)
  /\ UNCHANGED <<demoData, edaDatasetId, edaRenders, edaResult, edaProgress, edaDemoTimers,
                 edaRun, edaTask, edaLatest, uploadVars, fileVars, mlVars, pureVars, appVars, homeVars, authVars>>

\* pollResults up to its fetch
PollsTimer(n) ==
  /\ edaRuns[n].phase = "wait"
  /\ edaProgress' = Min((edaRuns[n].attempts * 100) \div maxAttempts, 90)
  /\ edaRuns' = [edaRuns EXCEPT ![n].phase = "fetch"]
  /\ UNCHANGED <<demoData, edaDatasetId, edaRenders, edaIsLoading, edaResult, edaError,
                 edaDemoTimers, edaRun, edaTask, edaLatest, uploadVars, fileVars, mlVars,
                 pureVars, appVars, homeVars, authVars>>

\* the inner catch of pollResults
PollFails(n, message) ==
  /\ edaError' = message
  /\ edaIsLoading' = FALSE
  /\ RunEnds(n)
  /\ UNCHANGED <<edaResult, edaProgress>>

\* pollResults from the response on
PollsResponse(n, status) ==
  /\ edaRuns[n].phase = "fetch"
  /\ IF status = "completed"
     THEN /\ edaResult' = AnalysisReport(edaRuns[n].datasetId, StoredMatrix(edaRuns[n].datasetId))
          /\ edaProgress' = 100
          /\ edaIsLoading' = FALSE
          /\ RunEnds(n)
          /\ UNCHANGED edaError
     ELSE IF status = "failed" THEN PollFails(n, AnalysisFailed)
     ELSE IF edaRuns[n].attempts + 1 < maxAttempts
     THEN /\ edaRuns' = [edaRuns EXCEPT ![n].phase = "wait", ![n].attempts = @ + 1]
          /\ UNCHANGED <<edaResult, edaProgress, edaIsLoading, edaError>>
     ELSE PollFails(n, AnalysisTimedOut)
  /\ UNCHANGED <<demoData, edaDatasetId, edaRenders, edaDemoTimers, edaRun, edaTask, edaLatest,
                 uploadVars, fileVars, mlVars, pureVars, appVars, homeVars, authVars>>

\* the poll fetch rejects
PollsNetworkError(n) ==
  /\ edaRuns[n].phase = "fetch"
  /\ PollFails(n, FailedToFetch)
  /\ UNCHANGED <<demoData, edaDatasetId, edaRenders, edaDemoTimers, edaRun, edaTask, edaLatest,
                 uploadVars, fileVars, mlVars, pureVars, appVars, homeVars, authVars>>

InitPolls ==
  /\ FileIdle
  /\ demoData = FALSE
  /\ MLIdle
  /\ EDAIdle
  /\ RestIdle
  /\ PureIdle

NextPolls ==
  \/ \E id \in DatasetIds : PollsRender(id)
  \/ PollsLoadDemoDataset
  \/ PollsRetry
  \/ \E n \in 1..MaxRuns : PollsDemoTimerFires(n)
  \/ \E n \in 1..MaxRuns, ok \in BOOLEAN : PollsHealthCheck(n, ok)
  \/ \E n \in 1..MaxRuns, ok \in BOOLEAN : PollsStartResponse(n, ok)
  \/ \E n \in 1..MaxRuns : PollsTimer(n)
  \/ \E n \in 1..MaxRuns, status \in PollStatuses : PollsResponse(n, status)
  \/ \E n \in 1..MaxRuns : PollsNetworkError(n)

SpecPolls == InitPolls /\ [][NextPolls]_vars

(***************************************************************************)
(* HomeSection.tsx, MLSection: the model is chosen, a training request is  *)
(* sent for the file and the target of the props, and the props change.    *)
(* A response carries what the backend computed for the request's file,    *)
(* target and model.                                                       *)
(***************************************************************************)
HomeFiles == {"", "a.csv", "b.csv"}

HomeTargets == {"", "salary", "score"}

Models == {"linear", "random-forest"}

MLRequestFailed == "ML request failed"

\* the form data of a request
TrainRequests == [file : HomeFiles \ {""}, target : HomeTargets \ {""}, model : Models]

\* useEffect(..., [uploadedFile, targetColumn]) after the props changed
HomeProps(f, t) ==
  /\ <<f, t>> # <<homeFile, homeTarget>>
  /\ homeFile' = f
  /\ homeTarget' = t
  /\ homeResult' = NoHomeResult
  /\ showResults' = FALSE
  /\ homeError' = ""
  /\ isTraining' = FALSE
  /\ selectedModel' = ""
  /\ UNCHANGED <<homeRequests, trainings, uploadVars, pollVars, fileVars, demoData, mlVars,
                 edaVars, pureVars, appVars, authVars>>

\* onValueChange={setSelectedModel}
setSelectedModel(m) ==
  /\ m # selectedModel
  /\ selectedModel' = m
  /\ UNCHANGED <<homeFile, homeTarget, isTraining, showResults, homeResult, homeError,
                 homeRequests, trainings, uploadVars, pollVars, fileVars, demoData, mlVars,
                 edaVars, pureVars, appVars, authVars>>

\* handleTrain up to the fetch; the button is disabled while isTraining
handleTrain ==
  /\ trainings < MaxTrainings
  /\ ~isTraining
  /\ selectedModel # "" /\ homeTarget # "" /\ homeFile # ""
  /\ isTraining' = TRUE
  /\ homeError' = ""
  /\ homeResult' = NoHomeResult
  /\ showResults' = FALSE
  /\ homeRequests' = homeRequests \cup {[file |-> homeFile, target |-> homeTarget, model |-> selectedModel]}
  /\ trainings' = trainings + 1
  /\ UNCHANGED <<homeFile, homeTarget, selectedModel, uploadVars, pollVars, fileVars, demoData,
                 mlVars, edaVars, pureVars, appVars, authVars>>

\* handleTrain from the response on
HomeTrainResponse(req, ok) ==
  /\ req \in homeRequests
  /\ homeRequests' = homeRequests \ {req}
  /\ IF ok
     THEN /\ homeResult' = [present |-> TRUE, file |-> req.file, target |-> req.target, model |-> req.model]
          /\ showResults' = TRUE
          /\ UNCHANGED homeError
     ELSE /\ homeError' = MLRequestFailed
          /\ UNCHANGED <<homeResult, showResults>>
  /\ isTraining' = FALSE
  /\ UNCHANGED <<homeFile, homeTarget, selectedModel, trainings, uploadVars, pollVars, fileVars,
                 demoData, mlVars, edaVars, pureVars, appVars, authVars>>

\* the fetch rejects
HomeTrainNetworkError(req) ==
  /\ req \in homeRequests
  /\ homeRequests' = homeRequests \ {req}
  /\ homeError' = FailedToFetch
  /\ isTraining' = FALSE
  /\ UNCHANGED <<homeFile, homeTarget, selectedModel, showResults, homeResult, trainings,
                 uploadVars, pollVars, fileVars, demoData, mlVars, edaVars, pureVars, appVars, authVars>>

InitHome ==
  /\ FileIdle
  /\ demoData = FALSE
  /\ MLIdle
  /\ EDAIdle
  /\ RestIdle
  /\ PureIdle

NextHome ==
  \/ \E f \in HomeFiles, t \in HomeTargets : HomeProps(f, t)
  \/ \E m \in Models : setSelectedModel(m)
  \/ handleTrain
  \/ \E req \in TrainRequests, ok \in BOOLEAN : HomeTrainResponse(req, ok)
  \/ \E req \in TrainRequests : HomeTrainNetworkError(req)

SpecHome == InitHome /\ [][NextHome]_vars

(***************************************************************************)
(* App (part_006) with AuthCard, LoginForm and RegisterForm: the token,    *)
(* the expiry check, the guarded routes and the logout.                    *)
(*                                                                         *)
(* A token is described by what the check reads of it: the number of its   *)
(* dot-separated segments, whether the payload segment is written in the   *)
(* alphabet atob accepts (A-Z a-z 0-9 + /) or holds one of the characters  *)
(* - and _ that base64url puts in their place, whether the decoded text is *)
(* JSON, and the exp claim in seconds (0: no exp claim).  An assignment to *)
(* window.location.href is followed to the page it loads.                  *)
(***************************************************************************)
ExpTimes == 0..(MaxTime - 1)

\* JSON Web Tokens as a server signs them, and a string that is no JWT
AccessTokens ==
  [segments : {3}, alphabet : {"base64", "base64url"}, json : {TRUE}, exp : ExpTimes]
    \cup {[segments |-> 1, alphabet |-> "base64", json |-> FALSE, exp |-> 0]}

Thrown == [thrown |-> TRUE, exp |-> 0]

\* JSON.parse(atob(token.split('.')[1])): atob throws on undefined, on - and
\* on _; JSON.parse throws on text that is not JSON
Payload(t) ==
  IF t.segments < 2 THEN Thrown
  ELSE IF t.alphabet # "base64" THEN Thrown
  ELSE IF ~t.json THEN Thrown
  ELSE [thrown |-> FALSE, exp |-> t.exp]

\* checkTokenExpiry removes the token and loads /login
ExpiryFound(t, time) ==
  /\ t # NoToken
  /\ ~Payload(t).thrown
  /\ Payload(t).exp # 0
  /\ time > Payload(t).exp

\* const isAuthenticated = () => !!localStorage.getItem('token')
isAuthenticated(t) == t # NoToken

Paths == {"/", "/upload", "/eda", "/ml", "/learn", "/login", "/register", "/other"}

LandingHomeForAll(path, t, dataset) ==
  IF ~isAuthenticated(t) /\ path \in {"/register", "/login"}
  THEN [route |-> path, view |-> "auth"]
  ELSE IF path = "/upload" THEN [route |-> path, view |-> "upload"]
  ELSE IF path = "/eda"
  THEN IF dataset # "" THEN [route |-> path, view |-> "eda"]
       ELSE [route |-> "/upload", view |-> "upload"]
  ELSE IF path = "/ml"
  THEN IF dataset # "" THEN [route |-> path, view |-> "ml"]
       ELSE [route |-> "/upload", view |-> "upload"]
  ELSE IF path = "/learn" THEN [route |-> path, view |-> "learn"]
  ELSE IF path \in {"/register", "/login"} THEN [route |-> "/", view |-> "home"]
  ELSE [route |-> path, view |-> "home"]

\* <Routes>: the path shown and the view rendered for a path
Landing(path, t, dataset) ==
  IF ~isAuthenticated(t)
  THEN IF path = "/register" THEN [route |-> "/register", view |-> "auth"]
       ELSE [route |-> "/login", view |-> "auth"]
  ELSE IF path = "/upload" THEN [route |-> path, view |-> "upload"]
  ELSE IF path = "/eda"
  THEN IF dataset # "" THEN [route |-> path, view |-> "eda"]
       ELSE [route |-> "/upload", view |-> "upload"]
  ELSE IF path = "/ml"
  THEN IF dataset # "" THEN [route |-> path, view |-> "ml"]
       ELSE [route |-> "/upload", view |-> "upload"]
  ELSE IF path = "/learn" THEN [route |-> path, view |-> "learn"]
  ELSE IF path \in {"/register", "/login"} THEN [route |-> "/", view |-> "home"]
  ELSE [route |-> path, view |-> "home"]

\* the page is loaded at a path with token t stored: App mounts, reads
\* uploadedDataset from localStorage and runs checkTokenExpiry, which may
\* remove the token and load /login
PageLoad(path, t) ==
  LET kept == IF ExpiryFound(t, now) THEN NoToken ELSE t
      at == IF ExpiryFound(t, now) THEN "/login" ELSE path
  IN /\ token' = kept
     /\ uploadedDataset' = savedDataset
     /\ route' = Landing(at, kept, savedDataset).route
     /\ view' = Landing(at, kept, savedDataset).view
     /\ authRequests' = {}
     /\ authError' = ""
     /\ lastCheck' = now

\* the user types a path into the address bar
AuthVisit(path) ==
  /\ requested' = path
  /\ PageLoad(path, token)
  /\ UNCHANGED <<now, savedDataset, navTimer, uploadVars, pollVars, homeVars, fileVars,
                 demoData, mlVars, edaVars, pureVars>>

\* a <Link> of the header, which is there for a signed-in user
AuthNavigate(path) ==
  /\ view \notin {"auth"}
  /\ path \in {"/", "/upload"} \/ (path \in {"/eda", "/ml"} /\ uploadedDataset # "")
  /\ path # route
  /\ requested' = path
  /\ route' = Landing(path, token, uploadedDataset).route
  /\ view' = Landing(path, token, uploadedDataset).view
  /\ UNCHANGED <<token, now, authRequests, authError, lastCheck, uploadedDataset, savedDataset, navTimer,
                 uploadVars, pollVars, homeVars, fileVars, demoData, mlVars, edaVars, pureVars>>

\* FileUpload reports a dataset: handleFileUploaded
AuthFileUploaded(id) ==
  /\ view = "upload"
  /\ uploadedDataset' = id
  /\ savedDataset' = id
  /\ UNCHANGED <<route, navTimer, authVars, uploadVars, pollVars, homeVars, fileVars, demoData,
                 mlVars, edaVars, pureVars>>

handleLogout ==
  /\ view \notin {"auth"}
  /\ requested' = "/"
  /\ PageLoad("/", NoToken)
  /\ UNCHANGED <<now, savedDataset, navTimer, uploadVars, pollVars, homeVars, fileVars,
                 demoData, mlVars, edaVars, pureVars>>

\* setInterval(checkTokenExpiry, 60 * 1000)
checkTokenExpiry ==
  /\ lastCheck < now
  /\ IF ExpiryFound(token, now)
     THEN /\ requested' = "/login"
          /\ PageLoad("/login", NoToken)
     ELSE /\ lastCheck' = now
          /\ UNCHANGED <<token, view, requested, authRequests, authError, route, uploadedDataset>>
  /\ UNCHANGED <<now, savedDataset, navTimer, uploadVars, pollVars, homeVars, fileVars,
                 demoData, mlVars, edaVars, pureVars>>

\* a second passes
Tick ==
  /\ now < MaxTime
  /\ now' = now + 1
  /\ UNCHANGED <<token, view, requested, authRequests, authError, lastCheck, appVars, uploadVars,
                 pollVars, homeVars, fileVars, demoData, mlVars, edaVars, pureVars>>

LoginFailed == "Login failed."

RegistrationFailed == "Registration failed."

NetworkError == "Network error. Please check your connection and try again."

\* handleSubmit of a form of AuthCard up to the fetch
AuthSubmit(form) ==
  /\ view = "auth"
  /\ form \notin authRequests
  /\ authRequests' = authRequests \cup {form}
  /\ authError' = ""
  /\ UNCHANGED <<token, now, view, requested, lastCheck, appVars, uploadVars, pollVars, homeVars,
                 fileVars, demoData, mlVars, edaVars, pureVars>>

\* LoginForm.handleSubmit from the response on
LoginResponse(ok, access) ==
  /\ "login" \in authRequests
  /\ IF ok /\ access # NoToken
     THEN /\ requested' = "/"
          /\ PageLoad("/", access)
     ELSE /\ authError' = LoginFailed
          /\ authRequests' = authRequests \ {"login"}
          /\ UNCHANGED <<token, view, requested, route, uploadedDataset, lastCheck>>
  /\ UNCHANGED <<now, savedDataset, navTimer, uploadVars, pollVars, homeVars, fileVars,
                 demoData, mlVars, edaVars, pureVars>>

RegisterResponseWithoutOk(ok, access) ==
  /\ "register" \in authRequests
  /\ authRequests' = authRequests \ {"register"}
  /\ IF access # NoToken
     THEN /\ token' = access
          /\ UNCHANGED authError
     ELSE /\ authError' = RegistrationFailed
          /\ UNCHANGED token
  /\ UNCHANGED <<now, view, requested, lastCheck, appVars, uploadVars, pollVars, homeVars, fileVars,
                 demoData, mlVars, edaVars, pureVars>>

\* RegisterForm.handleSubmit from the response on: the token is stored and
\* the page stays
RegisterResponse(ok, access) ==
  /\ "register" \in authRequests
  /\ authRequests' = authRequests \ {"register"}
  /\ IF ok /\ access # NoToken
     THEN /\ token' = access
          /\ UNCHANGED authError
     ELSE /\ authError' = RegistrationFailed
          /\ UNCHANGED token
  /\ UNCHANGED <<now, view, requested, lastCheck, appVars, uploadVars, pollVars, homeVars, fileVars,
                 demoData, mlVars, edaVars, pureVars>>

\* the fetch of a form rejects, or the body of the response is not JSON
AuthNetworkError(form) ==
  /\ form \in authRequests
  /\ authRequests' = authRequests \ {form}
  /\ authError' = NetworkError
  /\ UNCHANGED <<token, now, view, requested, lastCheck, appVars, uploadVars, pollVars, homeVars,
                 fileVars, demoData, mlVars, edaVars, pureVars>>

\* the browser opens the application at a path; a token and a dataset may
\* be left in localStorage from before
InitAuth ==
  /\ FileIdle
  /\ demoData = FALSE
  /\ MLIdle
  /\ EDAIdle
  /\ UploadIdle
  /\ PollsIdle
  /\ HomeIdle
  /\ TargetIdle
  /\ FloatIdle
  /\ navTimer = FALSE
  /\ now = 0
  /\ token \in {NoToken} \cup AccessTokens
  /\ savedDataset = ""
  /\ uploadedDataset = savedDataset
  /\ requested \in Paths
  /\ route = Landing(requested, token, savedDataset).route
  /\ view = Landing(requested, token, savedDataset).view
  /\ authRequests = {}
  /\ authError = ""
  /\ lastCheck = 0

NextAuth ==
  \/ \E path \in Paths : AuthVisit(path)
  \/ \E path \in Paths : AuthNavigate(path)
  \/ \E id \in BackendDatasetIds : AuthFileUploaded(id)
  \/ handleLogout
  \/ checkTokenExpiry
  \/ Tick
  \/ \E form \in {"login", "register"} : AuthSubmit(form)
  \/ \E ok \in BOOLEAN, access \in {NoToken} \cup AccessTokens : LoginResponse(ok, access)
  \/ \E ok \in BOOLEAN, access \in {NoToken} \cup AccessTokens : RegisterResponse(ok, access)
  \/ \E form \in {"login", "register"} : AuthNetworkError(form)

SpecAuth == InitAuth /\ [][NextAuth]_vars

(***************************************************************************)
(* analyze_target_variable applied to a target column                      *)
(***************************************************************************)
InitTarget ==
  /\ FileIdle
  /\ demoData = FALSE
  /\ MLIdle
  /\ EDAIdle
  /\ RestIdle
  /\ IsTargetColumn(targetData)
  /\ targetAnalysis = NoTargetAnalysis
  /\ FloatIdle
  /\ AppIdle

AnalyzeTarget ==
  /\ ~targetAnalysis.done
  /\ targetAnalysis' = analyze_target_variable(targetData)
  /\ UNCHANGED <<targetData, floatVars, fileVars, demoData, mlVars, edaVars, appVars, restVars>>

NextTarget == AnalyzeTarget

SpecTarget == InitTarget /\ [][NextTarget]_vars

(***************************************************************************)
(* calculateCorrelation applied to rows of numbers                         *)
(***************************************************************************)
InitFloat ==
  /\ FileIdle
  /\ demoData = FALSE
  /\ MLIdle
  /\ EDAIdle
  /\ RestIdle
  /\ TargetIdle
  /\ \E n \in 0..MaxPairs : numericPairs \in [1..n -> (0..MaxValue) \X (0..MaxValue)]
  /\ coefficient = NoCoefficient
  /\ AppIdle

ComputeCorrelation ==
  /\ ~coefficient.done
  /\ coefficient' = [done |-> TRUE, value |-> correlationOfPairs(numericPairs)]
  /\ UNCHANGED <<numericPairs, targetVars, fileVars, demoData, mlVars, edaVars, appVars, restVars>>

NextFloat == ComputeCorrelation

SpecFloat == InitFloat /\ [][NextFloat]_vars

(***************************************************************************)
(* Backend (README of the analysis service): find_high_correlations keeps  *)
(* a pair when abs(corr) > threshold.  The threshold is at scale 100 and   *)
(* the coefficient is num / sqrt(den2); a coefficient that is not a number *)
(* compares false.                                                         *)
(***************************************************************************)
ExceedsThreshold(r, threshold) ==
  r.den2 > 0 /\ r.num * r.num * 10000 > threshold * threshold * r.den2

DefaultThreshold == 70

(***************************************************************************)
(* Properties of the file processing utilities (SpecFile)                  *)
(***************************************************************************)
Settled == fpc # "selected"

Resolved == fpc \in {"resolved", "statistics", "correlation"}

\* C1: a column is classified numeric exactly when every value of its
\* sample of non-missing values (first 100 rows) is a number; one sampled value
\* that is not a number makes the column categorical.
C1_NumericIffAllSampledNumeric ==
  Resolved =>
    \A c \in Range(parsed.info.columns) :
      LET sample == SampleValues(parsed.info.data, c)
      IN Len(sample) > 0 =>
           (parsed.info.dtypes[c] = "numeric"
              <=> \A i \in DOMAIN sample : sample[i].t = "number")

\* C2: when one of the two columns has zero variance over the rows where
\* both are numbers, the correlation is reported as not computable (a value
\* that is neither 0 nor any other real coefficient) and the pair is not a
\* high correlation.
C2_ZeroVarianceNotComputable ==
  (fpc = "correlation"
     /\ Len(Pairs(parsed.info.data, corr.col1, corr.col2)) >= 2
     /\ \E k \in {1, 2} : Spread(Pairs(parsed.info.data, corr.col1, corr.col2), k) = 0)
  => (corr.result = NotComputable
        /\ ~ExceedsThreshold(corr.result, DefaultThreshold))

\* C3: for a column without any non-missing number, calculateStatistics
\* yields the absent profile (null), never a profile of zeros.
C3_NoNumbersGivesNull ==
  (fpc = "statistics"
     /\ \A i \in DOMAIN parsed.info.data :
          ~IsNumber(Get(parsed.info.data[i], stats.column)))
  => stats.result.isNull

C3_Witness ==
  /\ fpc = "statistics"
  /\ stats.column \in Range(parsed.info.columns)
  /\ Len(parsed.info.data) >= 2
  /\ \A i \in DOMAIN parsed.info.data :
       ~IsNumber(Get(parsed.info.data[i], stats.column))
  /\ \E i \in DOMAIN parsed.info.data :
       Get(parsed.info.data[i], stats.column).t = "string"
  /\ stats.result = NullStatistics

\* the data rows the file holds below its header: for CSV the lines that are
\* not empty, for a worksheet the rows that hold a value
DataRows(f) ==
  IF f.kind = "csv"
  THEN Cardinality({i \in DOMAIN f.lines : f.lines[i] # <<"">>})
  ELSE Cardinality({i \in DOMAIN f.lines :
                      \E k \in DOMAIN f.lines[i] : f.lines[i][k] # ""})

\* C7: the row count of a parsed dataset is the number of data rows of the
\* file, the header row excluded.
C7_RowCountIsDataRows ==
  Resolved => parsed.info.shape.rows = DataRows(file)

C7_Witness ==
  /\ Resolved
  /\ parsed.info.shape.rows = 2
  /\ Len(parsed.info.columns) = 2
  /\ parsed.info.shape.rows = DataRows(file)

\* a cell that is null, undefined, empty or a not-a-number marker
IsMissingOrNaN(v) == IsMissing(v) \/ v.s \in NaNTokens

\* C8: the missing-value total is the number of (row, column) cells that
\* are null, empty or NaN-equivalent, each counted once.
C8_MissingTotalCountsEveryMissingCell ==
  Resolved =>
    parsed.info.missingValues =
      Cardinality({<<i, c>> \in (DOMAIN parsed.info.data) \X Range(parsed.info.columns) :
                     IsMissingOrNaN(Get(parsed.info.data[i], c))})

\* C9: a dataset with zero columns or zero rows is rejected, and no
\* dataset summary is produced for it.
C9_EmptyDatasetRejected ==
  (Settled /\ file.kind \in {"csv", "xlsx"}
     /\ (DataRows(file) = 0 \/ \A k \in DOMAIN file.header : file.header[k] = ""))
  => (fpc = "rejected" /\ ~parsed.ok)

(***************************************************************************)
(* Properties of the ML dashboard and its training reports (SpecML)        *)
(***************************************************************************)
\* C5: in every training report that names a best model, that model is
\* one of the report's models and its primary metric (accuracy for
\* classification, R2 for regression) is at least that of every other model.
C5_BestModelHasHighestPrimaryMetric ==
  (mlResult.present /\ mlResult.best_model # "") =>
    \E b \in DOMAIN mlResult.model_results :
      /\ mlResult.model_results[b].model_name = mlResult.best_model
      /\ \A m \in DOMAIN mlResult.model_results :
           PrimaryMetric(mlResult.model_results[b], mlResult.problem_type)
             >= PrimaryMetric(mlResult.model_results[m], mlResult.problem_type)

C5_Witness ==
  /\ mlResult = DemoMLResult
  /\ mlResult.best_model = "Random Forest"
  /\ \E m \in DOMAIN mlResult.model_results :
       /\ mlResult.model_results[m].model_name # mlResult.best_model
       /\ PrimaryMetric(mlResult.model_results[m], mlResult.problem_type) < 7841

\* C6: every model result that carries a feature-importance vector has a
\* vector as long as the number of features used in training that the same
\* report states (dataset_info.features_used, and the list of feature names).
C6_ImportanceLengthIsFeaturesUsed ==
  mlResult.present =>
    \A m \in DOMAIN mlResult.model_results :
      mlResult.model_results[m].has_importance =>
        /\ Len(mlResult.model_results[m].feature_importance) = mlResult.features_used
        /\ Len(mlResult.model_results[m].feature_importance)
             = Len(mlResult.features_used_in_training)

\* the training request in flight names a target that is no column of its dataset
InvalidTargetInFlight ==
  /\ mlTrain.pending
  /\ mlTrain.datasetId \in BackendDatasetIds
  /\ mlTrain.target \notin Range(DatasetColumns(mlTrain.datasetId))

C4_HighCorrelationsAboveThreshold ==
  edaResult.present =>
    \A k \in DOMAIN edaResult.high_correlations :
      Abs(edaResult.high_correlations[k].correlation) > DefaultThreshold

(***************************************************************************)
(* Properties of the training form and of the polling loop                 *)
(***************************************************************************)
\* C11: every training request that is issued carries a test_size above 0
\* and at most 0.5 (50 at scale 100).
C11_TestSizeInRange ==
  mlTrain.pending => (0 < mlTrain.testSize /\ mlTrain.testSize <= 50)

\* C12: the client schedules another status query only after a response
\* that reported the task as queued or running.
C12_PollsOnlyWhileQueuedOrRunning ==
  [][\A ok \in BOOLEAN :
       \A matrix \in Matrices(edaRun.datasetId) :
         (EDAPollResponse(ok, matrix) /\ edaRun'.phase = "wait")
           => ReportedStatus(ok) \in {"queued", "running"}]_vars

\* a training request for a column of its dataset is in flight
ValidTrainingInFlight ==
  /\ mlTrain.pending
  /\ mlTrain.datasetId \in BackendDatasetIds
  /\ mlTrain.target \in Range(DatasetColumns(mlTrain.datasetId))

\* C13: when the fit of some, but not all, algorithms of the roster fails,
\* training still ends with a report, which holds a result for each of the
\* other algorithms and none for the failed ones.
C13_FitFailureDoesNotAbort ==
  [][\A failed \in Failures \ {{}, 1..4} : \A scores \in Scores(failed) :
       (ValidTrainingInFlight /\ MLTrainResponse(scores, failed))
         => /\ mlResult'.present
            /\ mlError' = ""
            /\ Len(mlResult'.model_results) = 4 - Cardinality(failed)]_vars

(***************************************************************************)
(* Properties of the target analysis (SpecTarget)                          *)
(***************************************************************************)
\* C14: the problem type is classification exactly when the target column
\* is categorical or is numerical with fewer than 10 distinct values, and
\* regression in every other case.
C14_ProblemType ==
  targetAnalysis.done =>
    LET distinct == Cardinality({targetData.values[i] : i \in DOMAIN targetData.values})
        categorical == targetData.dtype = "object"
    IN /\ targetAnalysis.problem_type \in {"classification", "regression"}
       /\ targetAnalysis.problem_type = "classification"
            <=> (categorical \/ (~categorical /\ distinct < 10))

\* a numerical target with exactly 10 distinct values was analysed
C14_Witness ==
  /\ targetAnalysis.done
  /\ targetData.dtype = "int64"
  /\ Cardinality({targetData.values[i] : i \in DOMAIN targetData.values}) = 10
  /\ targetAnalysis.problem_type = "regression"

\* the rows of the target column that hold its most frequent value
LargestClass ==
  LET size(v) == Cardinality({i \in DOMAIN targetData.values : targetData.values[i] = v})
  IN IF targetData.values = << >> THEN 0
     ELSE size(CHOOSE v \in Range(targetData.values) :
                 \A o \in Range(targetData.values) : size(o) <= size(v))

\* C15: for a classification target whose largest class share is m the
\* balance is balanced when m <= 0.6, moderately imbalanced when
\* 0.6 < m <= 0.8 and highly imbalanced when m > 0.8.
C15_BalanceThresholds ==
  (targetAnalysis.done /\ targetAnalysis.problem_type = "classification"
     /\ targetData.values # << >>) =>
    LET rows == Len(targetData.values)
    IN /\ 10 * LargestClass <= 6 * rows
            => targetAnalysis.balance_status = "balanced"
       /\ (6 * rows < 10 * LargestClass /\ 10 * LargestClass <= 8 * rows)
            => targetAnalysis.balance_status = "moderately_imbalanced"
       /\ 10 * LargestClass > 8 * rows
            => targetAnalysis.balance_status = "highly_imbalanced"

\* a target whose largest class holds exactly 0.8 of the rows was analysed
C15_Witness ==
  /\ targetAnalysis.done
  /\ targetAnalysis.problem_type = "classification"
  /\ Len(targetData.values) > 0
  /\ 10 * LargestClass = 8 * Len(targetData.values)
  /\ targetAnalysis.balance_status = "moderately_imbalanced"

(***************************************************************************)
(* Properties of the correlation in floating point (SpecFloat)             *)
(***************************************************************************)
\* C16: the coefficient computed for a pair of columns is a number c with
\* -1 <= c <= 1.
C16_CoefficientWithinUnitInterval ==
  coefficient.done =>
    /\ ~coefficient.value.nan
    /\ coefficient.value.e <= 0
    /\ Abs(coefficient.value.m) <= 2^(-coefficient.value.e)

C18_ColumnNamesDistinct ==
  Resolved =>
    \A i, j \in DOMAIN parsed.info.columns :
      i # j => parsed.info.columns[i] # parsed.info.columns[j]

(***************************************************************************)
(* Properties of the demo flow (SpecAppLive, SpecEDA)                      *)
(***************************************************************************)
\* C19: the dashboard started for the demo dataset id takes the path every
\* other dataset id takes: the analysis is started at the backend (health
\* check, start request, polling for the results).
C19_DemoDatasetTakesTheAnalysisPath ==
  [][\A id \in DatasetIds : EDARender(id) => edaRun'.phase = "health"]_vars

\* C20: after "Demo Data" was pressed the ML dashboard is eventually on
\* the page with the demo results.
C20_DemoResultsEventuallyShown ==
  navTimer ~> (route = "/ml" /\ mlDatasetId = DemoDatasetId /\ mlResult = DemoMLResult)

(***************************************************************************)
(* Properties of the type of a column without values (SpecFile)            *)
(***************************************************************************)
\* every cell of the column in the first 100 rows is null, undefined or empty
EmptySample(c) ==
  \A i \in 1..Min(Len(parsed.info.data), SampleSize) :
    IsMissing(Get(parsed.info.data[i], c))

\* C22: a column whose sample of non-missing values is empty is classified
\* categorical.
C22_EmptySampleIsCategorical ==
  Resolved =>
    \A c \in Range(parsed.info.columns) :
      EmptySample(c) => parsed.info.dtypes[c] = "categorical"

\* a parsed file with rows, a column with no value in any of them and a
\* numeric column beside it
C22_Witness ==
  /\ Resolved
  /\ Len(parsed.info.data) >= 2
  /\ \E c, n \in Range(parsed.info.columns) :
       /\ EmptySample(c)
       /\ parsed.info.dtypes[c] = "categorical"
       /\ parsed.info.dtypes[n] = "numeric"

(***************************************************************************)
(* Properties of the poll loop (SpecEDALive)                               *)
(***************************************************************************)
\* C23: a started analysis is queried at most 30 times; when no query
\* reports completed or failed the loop stops with 'Analysis timed out'
\* and the loading state cleared; the loop always ends.
C23_PollLoopEnds ==
  /\ [](edaRun.phase = "fetch" => edaRun.attempts + 1 <= maxAttempts)
  /\ [](edaError = AnalysisTimedOut => ~edaIsLoading /\ edaRun.phase = "none")
  /\ (edaRun.phase \in {"wait", "fetch"}) ~> (edaRun.phase = "none")

\* the thirtieth query came back without a final status
C23_Witness ==
  /\ edaError = AnalysisTimedOut
  /\ ~edaIsLoading
  /\ edaRun.phase = "none"
  /\ edaTask \in {"queued", "running"}

(***************************************************************************)
(* Properties of analyses under way side by side (SpecPolls)               *)
(***************************************************************************)
\* call or timer number n takes a step that sets the result, the error or
\* the loading state
Writes(n) ==
  /\ \/ PollsDemoTimerFires(n)
     \/ \E ok \in BOOLEAN : PollsHealthCheck(n, ok) \/ PollsStartResponse(n, ok)
     \/ \E status \in PollStatuses : PollsResponse(n, status)
     \/ PollsNetworkError(n)
  /\ <<edaResult, edaError, edaIsLoading>>' # <<edaResult, edaError, edaIsLoading>>

\* C24: only the analysis started last sets the result, the error and the
\* loading state the dashboard shows.
C24_OnlyLatestAnalysisWrites ==
  [][\A n \in 1..MaxRuns : Writes(n) => n = edaLatest]_vars

(***************************************************************************)
(* Properties of the training section of the home page (SpecHome)          *)
(***************************************************************************)
\* C25: a result on display was produced for the file and the target the
\* section holds now, also when a request for an earlier file or target
\* was in flight while they changed.
C25_NoResultOfEarlierFileOrTarget ==
  (showResults /\ homeResult.present) =>
    (homeResult.file = homeFile /\ homeResult.target = homeTarget)

(***************************************************************************)
(* Properties of the session (SpecAuth)                                    *)
(***************************************************************************)
\* the stored token is a JWT whose exp time has passed
ExpHasPassed ==
  /\ token.segments = 3
  /\ token.json
  /\ token.exp # 0
  /\ now > token.exp

\* C27: the expiry check removes a stored token whose exp time has passed
\* and sends the user to the login page; it removes no other token.
C27_ExpiryCheckRemovesExpiredTokens ==
  [][checkTokenExpiry =>
       IF ExpHasPassed THEN token' = NoToken /\ route' = "/login"
       ELSE token' = token]_vars

\* C28: while no token is stored only the login and registration forms are
\* rendered, at the paths /login and /register.
C28_NoViewWithoutToken ==
  token = NoToken => (view = "auth" /\ route \in {"/login", "/register"})

\* without a token, and with a dataset left in storage, the user asked for
\* the ML dashboard
C28_Witness ==
  /\ token = NoToken
  /\ savedDataset # ""
  /\ requested = "/ml"
  /\ route = "/login"
  /\ view = "auth"

\* C29: the logout leaves neither the token nor the uploaded dataset
\* record in local storage.
C29_LogoutClearsStorage ==
  [][handleLogout => (token' = NoToken /\ savedDataset' = "")]_vars

\* the response of a form of AuthCard that the form takes for a success
Granted(ok, access) == ok /\ access # NoToken

\* C30: the token is written by a successful login or registration
\* response that holds an access_token, and by nothing else; any other
\* response and a network error leave the stored token as it is.
C30_TokenWrittenOnSuccessOnly ==
  [][/\ (\A ok \in BOOLEAN, access \in {NoToken} \cup AccessTokens :
            ((LoginResponse(ok, access) \/ RegisterResponse(ok, access)) /\ ~Granted(ok, access))
              => token' = token)
      /\ (\A form \in {"login", "register"} : AuthNetworkError(form) => token' = token)
      /\ ((token' \notin {token, NoToken}) =>
            (\E granted \in AccessTokens :
               LoginResponse(TRUE, granted) \/ RegisterResponse(TRUE, granted)))]_vars

\* a token came with a registration response while another was stored
C30_Witness ==
  /\ token # NoToken
  /\ view = "auth"
  /\ authRequests = {}
  /\ authError = ""
  /\ requested = "/register"

(***************************************************************************)
(* Properties of the upload form (SpecUpload)                              *)
(***************************************************************************)
\* C21: a file larger than the documented maximum of 10MB is rejected by
\* the validation and no upload request is sent for it.
C21_NoUploadAboveDocumentedLimit ==
  uploadRequest.pending => uploadRequest.size <= DocumentedLimitMB

\* C26: once an upload has settled its progress interval is stopped, and
\* after a failed upload the progress is 0 until a new upload begins.
C26_ProgressTimerStopped ==
  ~uploadRequest.pending =>
    /\ progressIntervals = 0
    /\ uploadError \in {UploadFailed, FailedToFetch} => uploadProgress = 0

====
